---- MODULE Spec2Model ----
(***************************************************************************)
(* A model of the data pipeline of the stablecoin dashboard:               *)
(*   - utils/security.py   rate_limit_request, sanitize_url,              *)
(*                          validate_api_response                          *)
(*   - utils/api.py        fetch_data_with_retries                         *)
(*   - utils/caching.py    memory_cache, cleanup_memory_cache              *)
(*   - utils/data_processing.py  the four view assemblers                  *)
(*   - utils/formatting.py  the formatters, parsers and the classifier    *)
(* Each part has its own specification (SpecFetch, SpecRL, SpecCache,      *)
(* SpecPipe, SpecNorm, SpecFormat, SpecRace) over the same variables; the  *)
(* variables a specification does not use keep their initial values.       *)
(***************************************************************************)
EXTENDS Integers, Sequences, FiniteSets, TLC

VARIABLES
    \* ---- utils/api.py: RATE_LIMIT_STORE and the wall clock ----
    RATE_LIMIT_STORE,   \* dict domain -> [last_request, count, window_start]
    now,                \* the last value time.time() returned
    \* ---- one call of fetch_data_with_retries ----
    pc,                 \* "idle" | "loop" | "done"
    url,                \* argument url (after sanitizing)
    retries,            \* argument retries
    expected_keys,      \* argument expected_keys (a set; {} for None / [])
    attempt,            \* local attempt
    last_error,         \* local last_error (exception class name, "None" at first)
    result,             \* what the call gave its caller
    gets,               \* number of requests.get calls of this call
    delays,             \* number of time.sleep calls of this call
    outcome,            \* what the last requests.get of this call met
    failed,             \* number of attempts of this call the environment failed
    response,           \* the body the last requests.get of this call returned
    \* ---- observation of rate_limit_request ----
    rl,                 \* per domain: calls admitted since its window opened, and
                        \* the time of the last call admitted before that
    \* ---- utils/caching.py ----
    MEMORY_CACHE,       \* _MEMORY_CACHE: key -> [result, timestamp, ttl]
    call,               \* the last call of a cached function, and what was stored
    \* ---- utils/data_processing.py ----
    view,               \* the last call of a view assembler: inputs and output
    \* ---- concurrent callers of rate_limit_request ----
    threads             \* per thread: its position in rate_limit_request and
                        \* the count it read for the increment

fetchVars == <<pc, url, retries, expected_keys, attempt, last_error, result,
               gets, delays, outcome, failed, response>>
storeVars == <<RATE_LIMIT_STORE, now>>
vars == <<RATE_LIMIT_STORE, now, pc, url, retries, expected_keys, attempt,
          last_error, result, gets, delays, outcome, failed, response, rl,
          MEMORY_CACHE, call, view, threads>>
notFetch == <<rl, MEMORY_CACHE, call, view, threads>>
notRL == <<fetchVars, MEMORY_CACHE, call, view, threads>>
notCache == <<RATE_LIMIT_STORE, fetchVars, rl, view, threads>>
notPipe == <<storeVars, fetchVars, rl, MEMORY_CACHE, call, threads>>
notRace == <<fetchVars, MEMORY_CACHE, call, view>>

----------------------------------------------------------------------------
(* utils/config.py *)

API_RETRIES == 3
RATE_LIMIT_REQUESTS_PER_MINUTE == 60
RATE_LIMIT_WINDOW_SECONDS == 60

(* Bounds of the model *)
MaxRetries == 3         \* retries is drawn from 1..MaxRetries
Ttl == 2                \* the ttl argument of memory_cache, in clock ticks
MaxTime == 4            \* the cached functions are called at clock values 0..MaxTime

MaxPools == 2            \* the pool table has at most MaxPools rows

CacheKeys == {"f:k1", "f:k2"}
CacheValues == {"a", "b"}

\* Clock values the calls are made at: the start of the first window, its
\* last second, and one second after it.
Times == {0, RATE_LIMIT_WINDOW_SECONDS, RATE_LIMIT_WINDOW_SECONDS + 1}

----------------------------------------------------------------------------
(* Values *)

\* What a call gives its caller: a value or an escaping exception.
NoneValue == [kind |-> "None", val |-> {}]
Raised(exc) == [kind |-> "raise", val |-> {exc}]
NoResult == [kind |-> "pending", val |-> {}]

\* What response.json() returns: JSON null, or an object given by the set of
\* its top-level keys.
JsonNull == [kind |-> "null", val |-> {}]
JsonObject(keys) == [kind |-> "object", val |-> keys]
Responses == {JsonNull, JsonObject({}), JsonObject({"data"})}
KeyLists == {{}, {"data"}}

\* URLs as urllib.parse.urlparse sees them: scheme and netloc.
YieldsUrl == [scheme |-> "https", netloc |-> "yields.llama.fi"]
PlainUrl == [scheme |-> "http", netloc |-> "yields.llama.fi"]
EmptyUrl == [scheme |-> "", netloc |-> ""]
Urls == {YieldsUrl, PlainUrl, EmptyUrl}
StablecoinsUrl == [scheme |-> "https", netloc |-> "stablecoins.llama.fi"]
Domains == {YieldsUrl.netloc, StablecoinsUrl.netloc}

----------------------------------------------------------------------------
(* utils/security.py *)

\* sanitize_url: "" and URLs without netloc raise InvalidURLError; the scheme
\* is forced to https.
sanitize_url(u) ==
    IF u.netloc = ""
    THEN [exc |-> "InvalidURLError", url |-> u]
    ELSE [exc |-> "none", url |-> [u EXCEPT !.scheme = "https"]]

WindowPassedLoose(current_time, window_start) ==
    current_time - window_start >= RATE_LIMIT_WINDOW_SECONDS

\* security.py:167  current_time - window_start > RATE_LIMIT_WINDOW_SECONDS
WindowPassed(current_time, window_start) ==
    current_time - window_start > RATE_LIMIT_WINDOW_SECONDS

LimitReachedLoose(count) == count > RATE_LIMIT_REQUESTS_PER_MINUTE

\* security.py:172  count >= RATE_LIMIT_REQUESTS_PER_MINUTE
LimitReached(count) == count >= RATE_LIMIT_REQUESTS_PER_MINUTE

\* rate_limit_request counting the calls it rejects as well
RateLimitCountsRejected(u, storage, current_time) ==
    LET domain == u.netloc
        s1 == IF domain \in DOMAIN storage
              THEN storage
              ELSE storage @@ (domain :> [last_request |-> current_time,
                                          count |-> 0,
                                          window_start |-> current_time])
        s2 == IF WindowPassed(current_time, s1[domain].window_start)
              THEN [s1 EXCEPT ![domain].count = 0,
                              ![domain].window_start = current_time]
              ELSE s1
        s3 == [s2 EXCEPT ![domain].count = @ + 1,
                         ![domain].last_request = current_time]
    IN  IF domain = ""
        THEN [exc |-> "InvalidURLError", storage |-> storage]
        ELSE IF LimitReached(s2[domain].count)
        THEN [exc |-> "RateLimitExceededError", storage |-> s3]
        ELSE [exc |-> "none", storage |-> s3]

\* rate_limit_request(url, rate_limit_storage) at clock value current_time:
\* the storage after the call and the exception raised ("none": returned True).
rate_limit_request(u, storage, current_time) ==
    LET domain == u.netloc
        s1 == IF domain \in DOMAIN storage
              THEN storage
              ELSE storage @@ (domain :> [last_request |-> current_time,
                                          count |-> 0,
                                          window_start |-> current_time])
        s2 == IF WindowPassed(current_time, s1[domain].window_start)
              THEN [s1 EXCEPT ![domain].count = 0,
                              ![domain].window_start = current_time]
              ELSE s1
    IN  IF domain = ""
        THEN [exc |-> "InvalidURLError", storage |-> storage]
        ELSE IF LimitReached(s2[domain].count)
        THEN [exc |-> "RateLimitExceededError", storage |-> s2]
        ELSE [exc |-> "none",
              storage |-> [s2 EXCEPT ![domain].count = @ + 1,
                                     ![domain].last_request = current_time]]

\* validate_api_response(response_data, expected_keys): TRUE iff it raises
\* ValidationError (None response, or a key of expected_keys is missing).
ValidationFails(response_data, keys) ==
    IF response_data = JsonNull
    THEN TRUE
    ELSE keys # {} /\ \E k \in keys : k \notin response_data.val

----------------------------------------------------------------------------
(* utils/api.py: fetch_data_with_retries *)

EmptyStore == [d \in {} |-> 0]

SecurityErrorCaught(exc) == NoneValue

\* api.py:88-91  "except SecurityError as e: ... return None". utils/api.py
\* imports InvalidURLError, RateLimitExceededError and ValidationError from
\* utils.security (lines 32-40) but not SecurityError, so matching the
\* exception against the except clause raises NameError, which escapes.
SecurityErrorHandler(exc) == Raised("NameError")

RetryAlways(att, n) == TRUE

RetryOneLess(att, n) == att < n - 1

\* api.py:116/133/148/163  "if attempt < retries" after "attempt += 1"
RetryAgain(att, n) == att < n

\* api.py:75-96: sanitize the URL, check the rate limit, then enter the loop
\* ("while attempt < retries"; falling out of it returns None, lines 175-181).
FetchBegin(u, n, keys, t) ==
    /\ pc # "loop"
    /\ t >= now
    /\ LET san == sanitize_url(u)
           lim == rate_limit_request(san.url, RATE_LIMIT_STORE, t)
           exc == IF san.exc # "none" THEN san.exc ELSE lim.exc
       IN  /\ now' = t
           /\ url' = san.url
           /\ retries' = n
           /\ expected_keys' = keys
           /\ attempt' = 0
           /\ last_error' = "None"
           /\ gets' = 0
           /\ delays' = 0
           /\ failed' = 0
           /\ response' = JsonNull
           /\ RATE_LIMIT_STORE' = IF san.exc # "none" THEN RATE_LIMIT_STORE
                                  ELSE lim.storage
           /\ IF exc # "none"
              THEN /\ outcome' = exc
                   /\ result' = SecurityErrorHandler(exc)
                   /\ pc' = "done"
              ELSE /\ outcome' = "none"
                   /\ result' = IF 0 < n THEN NoResult ELSE NoneValue
                   /\ pc' = IF 0 < n THEN "loop" ELSE "done"
    /\ UNCHANGED notFetch

\* The body common to the four except clauses of the loop: count the attempt,
\* remember the error, then sleep and go round again, or return None.
HandleFailureNoSleep(exc) ==
    /\ attempt' = attempt + 1
    /\ last_error' = exc
    /\ outcome' = exc
    /\ failed' = failed + 1
    /\ delays' = delays
    /\ IF attempt + 1 < retries
       THEN /\ result' = result
            /\ pc' = "loop"
       ELSE /\ result' = NoneValue
            /\ pc' = "done"

HandleFailure(exc) ==
    /\ attempt' = attempt + 1
    /\ last_error' = exc
    /\ outcome' = exc
    /\ failed' = failed + 1
    /\ IF RetryAgain(attempt + 1, retries)
       THEN /\ delays' = delays + 1
            /\ result' = result
            /\ pc' = "loop"
       ELSE /\ delays' = delays
            /\ result' = NoneValue
            /\ pc' = "done"

\* api.py:98-107: the GET succeeds, the body parses and validates.
AttemptOk(resp) ==
    /\ pc = "loop" /\ attempt < retries
    /\ ~ValidationFails(resp, expected_keys)
    /\ gets' = gets + 1
    /\ outcome' = "ok"
    /\ response' = resp
    /\ result' = resp
    /\ pc' = "done"
    /\ UNCHANGED <<attempt, last_error, delays, failed, url, retries,
                   expected_keys, storeVars, notFetch>>

\* api.py:109-125: the GET succeeds, the body parses, validation raises.
AttemptValidationError(resp) ==
    /\ pc = "loop" /\ attempt < retries
    /\ ValidationFails(resp, expected_keys)
    /\ gets' = gets + 1
    /\ response' = resp
    /\ HandleFailure("ValidationError")
    /\ UNCHANGED <<url, retries, expected_keys, storeVars, notFetch>>

\* api.py:127-140: network error, timeout, or raise_for_status() on a 4xx/5xx.
AttemptRequestException ==
    /\ pc = "loop" /\ attempt < retries
    /\ gets' = gets + 1
    /\ response' = JsonNull
    /\ HandleFailure("RequestException")
    /\ UNCHANGED <<url, retries, expected_keys, storeVars, notFetch>>

\* api.py:142-155: the body is not JSON.
AttemptJSONDecodeError ==
    /\ pc = "loop" /\ attempt < retries
    /\ gets' = gets + 1
    /\ response' = JsonNull
    /\ HandleFailure("JSONDecodeError")
    /\ UNCHANGED <<url, retries, expected_keys, storeVars, notFetch>>

\* api.py:157-173: any other exception.
AttemptException ==
    /\ pc = "loop" /\ attempt < retries
    /\ gets' = gets + 1
    /\ response' = JsonNull
    /\ HandleFailure("Exception")
    /\ UNCHANGED <<url, retries, expected_keys, storeVars, notFetch>>

RlIdle == [admitted |-> [d \in Domains |-> 0],
           prevLast |-> [d \in Domains |-> -1]]

CallIdle == [key |-> "", time |-> 0, hit |-> FALSE, executed |-> FALSE,
             returned |-> "", before |-> [time |-> -1, value |-> ""],
             stored |-> [k \in CacheKeys |-> [time |-> -1, value |-> ""]]]

ViewIdle == [name |-> "none"]

\* The threads that call rate_limit_request on the shared store.
Threads == {"t1", "t2"}

ThreadsIdle == [t \in Threads |-> [pc |-> "idle", count |-> 0]]

InitBase ==
    /\ RATE_LIMIT_STORE = EmptyStore
    /\ now = 0
    /\ pc = "idle"
    /\ url = EmptyUrl
    /\ retries = API_RETRIES
    /\ expected_keys = {}
    /\ attempt = 0
    /\ last_error = "None"
    /\ result = NoResult
    /\ gets = 0
    /\ delays = 0
    /\ outcome = "none"
    /\ failed = 0
    /\ response = JsonNull
    /\ rl = RlIdle
    /\ MEMORY_CACHE = EmptyStore
    /\ call = CallIdle
    /\ threads = ThreadsIdle

Init == InitBase /\ view = ViewIdle

NextFetch ==
    \/ \E u \in Urls, n \in 1..MaxRetries, keys \in KeyLists, t \in Times :
          FetchBegin(u, n, keys, t)
    \/ \E resp \in Responses : AttemptOk(resp)
    \/ \E resp \in Responses : AttemptValidationError(resp)
    \/ AttemptRequestException
    \/ AttemptJSONDecodeError
    \/ AttemptException

SpecFetch == Init /\ [][NextFetch]_vars

----------------------------------------------------------------------------
(* utils/security.py: rate_limit_request called on its own (SpecRL) *)

\* One call rate_limit_request(u, RATE_LIMIT_STORE) at clock value t. rl
\* observes it: a window of the domain opens when its entry is created or its
\* window_start changes.
RateLimitCall(u, t) ==
    /\ pc = "idle"
    /\ t >= now
    /\ LET r == rate_limit_request(u, RATE_LIMIT_STORE, t)
           d == u.netloc
           known == d \in DOMAIN RATE_LIMIT_STORE
           opened == IF known
                     THEN r.storage[d].window_start
                              # RATE_LIMIT_STORE[d].window_start
                     ELSE TRUE
           one == IF r.exc = "none" THEN 1 ELSE 0
       IN  /\ RATE_LIMIT_STORE' = r.storage
           /\ now' = t
           /\ rl' = IF d = ""
                    THEN rl
                    ELSE [admitted |->
                            [rl.admitted EXCEPT
                               ![d] = (IF opened THEN 0 ELSE @) + one],
                          prevLast |->
                            [rl.prevLast EXCEPT
                               ![d] = IF opened /\ known
                                      THEN RATE_LIMIT_STORE[d].last_request
                                      ELSE @]]
    /\ UNCHANGED notRL

NextRL ==
    \E u \in {YieldsUrl, StablecoinsUrl, EmptyUrl}, t \in Times :
        RateLimitCall(u, t)

SpecRL == Init /\ [][NextRL]_vars

----------------------------------------------------------------------------
(* utils/caching.py: memory_cache and cleanup_memory_cache (SpecCache) *)

FreshLoose(age, ttl) == age <= ttl

\* caching.py:70  current_time - timestamp < result_ttl
Fresh(age, ttl) == age < ttl

\* caching.py:101  current_time - timestamp >= ttl
Expired(age, ttl) == age >= ttl

\* cleanup_memory_cache() at clock value current_time: the cache without its
\* expired entries.
cleanup_memory_cache(cache, current_time) ==
    LET keep == {k \in DOMAIN cache :
                   ~Expired(current_time - cache[k].timestamp, cache[k].ttl)}
    IN  [k \in keep |-> cache[k]]

\* One call of a function decorated with memory_cache(ttl = Ttl), with cache
\* key k, at clock value t. On a miss the function runs and returns v; sweep
\* is "hash(cache_key) % 100 == 0" (str hashes are salted per process), and
\* t2 is the clock value cleanup_memory_cache then reads.
CachedCall(k, t, v, sweep, t2) ==
    /\ t >= now
    /\ t2 >= t
    /\ ~sweep => t2 = t
    /\ LET isHit == /\ k \in DOMAIN MEMORY_CACHE
                    /\ Fresh(t - MEMORY_CACHE[k].timestamp, MEMORY_CACHE[k].ttl)
           entry == [result |-> v, timestamp |-> t, ttl |-> Ttl]
           put == [x \in DOMAIN MEMORY_CACHE \cup {k} |->
                      IF x = k THEN entry ELSE MEMORY_CACHE[x]]
       IN  IF isHit
           THEN /\ MEMORY_CACHE' = MEMORY_CACHE
                /\ now' = t
                /\ call' = [key |-> k, time |-> t, hit |-> TRUE,
                            executed |-> FALSE,
                            returned |-> MEMORY_CACHE[k].result,
                            before |-> call.stored[k],
                            stored |-> call.stored]
           ELSE /\ MEMORY_CACHE' = IF sweep THEN cleanup_memory_cache(put, t2)
                                   ELSE put
                /\ now' = t2
                /\ call' = [key |-> k, time |-> t, hit |-> FALSE,
                            executed |-> TRUE,
                            returned |-> v,
                            before |-> call.stored[k],
                            stored |-> [call.stored EXCEPT
                                          ![k] = [time |-> t, value |-> v]]]
    /\ UNCHANGED notCache

\* cleanup_memory_cache() called on its own at clock value t.
CleanupMemoryCache(t) ==
    /\ t >= now
    /\ MEMORY_CACHE' = cleanup_memory_cache(MEMORY_CACHE, t)
    /\ now' = t
    /\ call' = [call EXCEPT !.key = ""]
    /\ UNCHANGED notCache

NextCache ==
    \/ \E k \in CacheKeys, t \in 0..MaxTime, v \in CacheValues,
          sweep \in BOOLEAN, t2 \in 0..MaxTime :
          CachedCall(k, t, v, sweep, t2)
    \/ \E t \in 0..MaxTime : CleanupMemoryCache(t)

SpecCache == Init /\ [][NextCache]_vars

----------------------------------------------------------------------------
(* utils/formatting.py, as far as the view assemblers use it. A formatted   *)
(* number is kept as its unit and the number it was made from.              *)

\* pandas NaN / pd.NA in a numeric column; tvlUsd and apy are >= 0 here.
NaN == -1

NA == [text |-> "N/A", num |-> 0]

\* format_tvl: "N/A" for NaN and for 0, else "$<tvl>"
format_tvl(tvl) ==
    IF tvl = NaN \/ tvl = 0 THEN NA ELSE [text |-> "$", num |-> tvl]

\* format_apy: "N/A" for NaN, else "<apy>%"
format_apy(apy) ==
    IF apy = NaN THEN NA ELSE [text |-> "%", num |-> apy]

\* A missing name after a left merge (NaN) and a column filled with None.
NaNName == "NaN"
NoneName == "None"

\* format_metadata: "N/A" for NaN, None and ""
format_metadata(value) ==
    IF value \in {NaNName, NoneName, ""} THEN "N/A" ELSE value

\* Series.astype(str).fillna('N/A').replace('', 'N/A'): NaN and None have
\* become the strings 'nan' and 'None' before fillna looks at them.
AsStr(value) ==
    IF value = NaNName THEN "nan"
    ELSE IF value = "" THEN "N/A"
    ELSE value

----------------------------------------------------------------------------
(* utils/data_processing.py: get_yield_data and get_analytics_data *)

\* str.lower() on the symbols of the model
Lower == ("USDC" :> "usdc" @@ "sUSDf" :> "susdf" @@ "XYZ" :> "xyz" @@
          "None" :> "none" @@ "nan" :> "nan" @@ "" :> "")

PoolRecord(sym, flag, tvl, a) ==
    [symbol |-> sym, join_symbol |-> Lower[sym], stablecoin |-> flag,
     tvlUsd |-> tvl, apy |-> a]

\* Rows of the table fetch_defillama_yield_pools returns: a flagged
\* stablecoin, an unflagged target asset, an unflagged other asset.
PoolRecords ==
    {PoolRecord("USDC", TRUE, tvl, a) : tvl \in {NaN, 1, 2}, a \in {NaN, 1, 2}}
    \cup {PoolRecord("sUSDf", FALSE, 2, a) : a \in {NaN, 1, 2}}
    \cup {PoolRecord("XYZ", FALSE, 2, 2)}

SeqsUpTo(S, n) == UNION {[1..k -> S] : k \in 0..n}

\* What fetch_defillama_yield_pools() gives: the table, None (fetch failed
\* or payload malformed), or the NameError escaping fetch_data_with_retries
\* when the rate limiter blocks the request (SecurityErrorHandler).
FetchedPools ==
    {[kind |-> "df", rows |-> r] : r \in SeqsUpTo(PoolRecords, MaxPools)}
    \cup {[kind |-> "None", rows |-> <<>>]}
    \cup {[kind |-> SecurityErrorHandler("RateLimitExceededError").kind,
            rows |-> <<>>]}

MetaRow(sym, nm) == [join_symbol |-> sym, name |-> nm]

\* stablecoin_metadata_df: None, empty, one row, two rows with the same
\* join_symbol, rows for two symbols, a table with a symbol column and no
\* join_symbol column, a table with neither. The columns of a table are the
\* fields of its rows.
MetaTables ==
    {[kind |-> "None", rows |-> <<>>],
     [kind |-> "df", rows |-> <<>>],
     [kind |-> "df", rows |-> <<MetaRow("usdc", "Circle")>>],
     [kind |-> "df", rows |-> <<MetaRow("usdc", "Circle"),
                                MetaRow("usdc", "Other")>>],
     [kind |-> "df", rows |-> <<MetaRow("susdf", "Falcon"),
                                MetaRow("usdc", "Circle")>>],
     [kind |-> "df", rows |-> <<[symbol |-> "USDC", name |-> "Circle"]>>],
     [kind |-> "df", rows |-> <<[name |-> "Circle"]>>]}

TargetSets == {{}, {"susdf"}}
MinTvls == {0, 1}

\* create_error_dataframe(error_type, message): one column, one row
create_error_dataframe(error_type, message) ==
    [kind |-> "df", columns |-> {error_type},
     rows |-> <<[message |-> message]>>]

DataFrame(cols, rs) == [kind |-> "df", columns |-> cols, rows |-> rs]

RelevantFlagOnly(r, targets) == r.stablecoin = TRUE

AboveMinInclusive(r, min_tvl) ==
    (IF r.tvlUsd = NaN THEN 0 ELSE r.tvlUsd) >= min_tvl

\* data_processing.py:58-60  stablecoin == True | join_symbol.isin(targets)
Relevant(r, targets) == r.stablecoin = TRUE \/ r.join_symbol \in targets

\* data_processing.py:69  tvlUsd.fillna(0) > min_tvl
AboveMin(r, min_tvl) == (IF r.tvlUsd = NaN THEN 0 ELSE r.tvlUsd) > min_tvl

NoDropDuplicates(rows, seen) == rows

\* drop_duplicates keeping the last row of each join_symbol
RECURSIVE DropDuplicatesKeepLast(_, _)
DropDuplicatesKeepLast(rows, seen) ==
    IF rows = <<>> THEN <<>>
    ELSE IF \E i \in 2..Len(rows) :
                rows[i].join_symbol = Head(rows).join_symbol
         THEN DropDuplicatesKeepLast(Tail(rows), seen)
         ELSE <<Head(rows)>> \o DropDuplicatesKeepLast(Tail(rows), seen)

\* DataFrame.drop_duplicates(subset=['join_symbol']): the first row of each
\* join_symbol is kept.
RECURSIVE drop_duplicates(_, _)
drop_duplicates(rows, seen) ==
    IF rows = <<>> THEN <<>>
    ELSE IF Head(rows).join_symbol \in seen
         THEN drop_duplicates(Tail(rows), seen)
         ELSE <<Head(rows)>>
              \o drop_duplicates(Tail(rows),
                                  seen \cup {Head(rows).join_symbol})

\* One left row joined to the right rows of its join_symbol, in their order;
\* a left row without a match is kept with a NaN name.
JoinRow(l, right) ==
    LET hits == SelectSeq(right, LAMBDA m : m.join_symbol = l.join_symbol)
    IN  IF hits = <<>>
        THEN <<[row |-> l, name |-> NaNName]>>
        ELSE [i \in 1..Len(hits) |-> [row |-> l, name |-> hits[i].name]]

\* pd.merge(left, right, on='join_symbol', how='left')
RECURSIVE merge_left(_, _)
merge_left(left, right) ==
    IF left = <<>> THEN <<>>
    ELSE JoinRow(Head(left), right) \o merge_left(Tail(left), right)

\* stablecoin_metadata_df.columns of a table with rows
MetaColumns(meta) == DOMAIN meta.rows[1]

\* data_processing.py:81-82 (and 226-227): a metadata table that has a
\* symbol column and no join_symbol column is given one, in place.
WithJoinSymbol(meta) ==
    IF "join_symbol" \notin MetaColumns(meta) /\ "symbol" \in MetaColumns(meta)
    THEN [meta EXCEPT !.rows =
             [i \in 1..Len(meta.rows) |->
                 [symbol |-> meta.rows[i].symbol, name |-> meta.rows[i].name,
                  join_symbol |-> Lower[meta.rows[i].symbol]]]]
    ELSE meta

\* data_processing.py:80, 84: there is metadata and it has, or was given,
\* a join_symbol column
Mergeable(meta) ==
    /\ meta.kind = "df"
    /\ meta.rows # <<>>
    /\ "join_symbol" \in MetaColumns(WithJoinSymbol(meta))

\* data_processing.py:85-88
meta_subset(meta) == drop_duplicates(WithJoinSymbol(meta).rows, {})

\* data_processing.py:78-105 (and 223-247): the metadata merge, or the
\* metadata columns filled with None when there is no metadata to merge.
MergeMetadata(filtered, meta) ==
    IF Mergeable(meta)
    THEN merge_left(filtered, meta_subset(meta))
    ELSE [i \in 1..Len(filtered) |-> [row |-> filtered[i], name |-> NoneName]]

InsertLast(x, sorted) == sorted \o <<x>>

\* Insert x into a sequence sorted by key descending with NaN last, behind
\* the rows it ties with.
RECURSIVE InsertDesc(_, _)
InsertDesc(x, sorted) ==
    IF sorted = <<>> THEN <<x>>
    ELSE LET h == Head(sorted)
             before == x.key # NaN /\ (h.key = NaN \/ x.key > h.key)
         IN  IF before THEN <<x>> \o sorted
             ELSE <<h>> \o InsertDesc(x, Tail(sorted))

RECURSIVE SortKeyed(_)
SortKeyed(keyed) ==
    IF keyed = <<>> THEN <<>>
    ELSE InsertDesc(keyed[Len(keyed)],
                    SortKeyed(SubSeq(keyed, 1, Len(keyed) - 1)))

\* sort_values(by=..., ascending=False, na_position='last'); for tables
\* this small numpy's quicksort is an insertion sort, so ties keep their
\* order.
SortDesc(rows, keys) ==
    LET keyed == [i \in 1..Len(rows) |->
                     [key |-> keys[i], item |-> rows[i]]]
        sorted == SortKeyed(keyed)
    IN  [i \in 1..Len(sorted) |-> sorted[i].item]

ApySortCol(m) == m.row.apy

YieldColumns == {"Chain", "Project", "Asset Symbol", "APY (%)", "TVL (USD)",
                 "Issuer/Name", "Type (Peg)"}
AnalyticsColumns == {"Chain", "Project", "Asset Symbol", "APY", "TVL_USD",
                     "Issuer/Name", "Type (Peg)", "Type (Peg Mechanism)"}

\* data_processing.py:113-147: one display row
YieldRow(m) ==
    [symbol |-> format_metadata(m.row.symbol),
     apy |-> format_apy(m.row.apy),
     tvl |-> format_tvl(m.row.tvlUsd),
     name |-> format_metadata(m.name)]

\* data_processing.py:260-286: one analytics row
AnalyticsRow(m) ==
    [symbol |-> AsStr(m.row.symbol),
     apy |-> m.row.apy,
     tvl |-> m.row.tvlUsd,
     name |-> AsStr(m.name)]

KeepsEveryRow(m) == TRUE

\* dropna(subset=['APY', 'TVL_USD'])
HasApyAndTvl(m) == m.row.apy # NaN /\ m.row.tvlUsd # NaN

\* data_processing.py:60  base_df[flag | target].copy()
relevant_pools_df(base, targets) ==
    SelectSeq(base.rows, LAMBDA r : Relevant(r, targets))

\* data_processing.py:70  relevant_pools_df[tvl_condition].copy()
filtered_tvl_df(relevant, min_tvl) ==
    SelectSeq(relevant, LAMBDA r : AboveMin(r, min_tvl))

\* The tables the pool assemblers build on the way to their result; a step
\* behind a short-circuit return has nothing to work on.
PoolLocals(base, min_tvl, targets, meta) ==
    LET relevant == relevant_pools_df(base, targets)
        filtered == filtered_tvl_df(relevant, min_tvl)
    IN  [relevant_pools_df |-> relevant,
         filtered_tvl_df |-> filtered,
         merged_df |-> MergeMetadata(filtered, meta)]

\* The caller's metadata table after a call: line 82 (227) is reached when
\* neither filter returned early.
stablecoin_metadata_df(base, min_tvl, targets, meta) ==
    IF /\ base.kind = "df"
       /\ filtered_tvl_df(relevant_pools_df(base, targets), min_tvl) # <<>>
       /\ meta.kind = "df"
       /\ meta.rows # <<>>
    THEN WithJoinSymbol(meta)
    ELSE meta

NoLocals == [relevant_pools_df |-> <<>>, filtered_tvl_df |-> <<>>,
             merged_df |-> <<>>]

\* get_yield_data(min_tvl, target_yield_assets_lower, stablecoin_metadata_df)
\* with base the value fetch_defillama_yield_pools() gives.
get_yield_data(base, min_tvl, targets, meta) ==
    LET locals == PoolLocals(base, min_tvl, targets, meta)
        relevant == locals.relevant_pools_df
        filtered == locals.filtered_tvl_df
        merged == locals.merged_df
        sorted == SortDesc(merged, [i \in 1..Len(merged) |->
                                       ApySortCol(merged[i])])
    IN  IF base.kind = "raise" THEN [kind |-> "raise", columns |-> {}, rows |-> <<>>]
        ELSE IF base.kind = "None"
        THEN create_error_dataframe("error", "Data fetch failed")
        ELSE IF base.rows = <<>>
        THEN create_error_dataframe("warning", "No pools matched base criteria")
        ELSE IF relevant = <<>>
        THEN create_error_dataframe("warning", "No pools matched base criteria")
        ELSE IF filtered = <<>>
        THEN create_error_dataframe("warning_tvl", "No pools matched TVL > min")
        ELSE DataFrame(YieldColumns,
                       [i \in 1..Len(sorted) |-> YieldRow(sorted[i])])

\* get_analytics_data(min_tvl, target_yield_assets_lower,
\* stablecoin_metadata_df): as get_yield_data up to the merge, then rows
\* without APY or TVL are dropped; the numbers stay numbers; no sort.
get_analytics_data(base, min_tvl, targets, meta) ==
    LET locals == PoolLocals(base, min_tvl, targets, meta)
        relevant == locals.relevant_pools_df
        filtered == locals.filtered_tvl_df
        merged == locals.merged_df
        kept == SelectSeq(merged, HasApyAndTvl)
    IN  IF base.kind = "raise" THEN [kind |-> "raise", columns |-> {}, rows |-> <<>>]
        ELSE IF base.kind = "None"
        THEN create_error_dataframe("error", "Data fetch failed")
        ELSE IF base.rows = <<>>
        THEN create_error_dataframe("warning", "No pools matched base criteria")
        ELSE IF relevant = <<>>
        THEN create_error_dataframe("warning", "No pools matched base criteria")
        ELSE IF filtered = <<>>
        THEN create_error_dataframe("warning_tvl", "No pools matched TVL > min")
        ELSE DataFrame(AnalyticsColumns,
                       [i \in 1..Len(kept) |-> AnalyticsRow(kept[i])])

----------------------------------------------------------------------------
(* utils/formatting.py parsers and the two assemblers of the curated map.   *)
(* A Python string is the sequence of its characters; a parsed number is    *)
(* kept in hundredths.                                                      *)

MaxEntries == 2          \* the curated map has at most MaxEntries entries

Digit == ("0" :> 0 @@ "1" :> 1 @@ "2" :> 2 @@ "3" :> 3 @@ "4" :> 4 @@
          "5" :> 5 @@ "6" :> 6 @@ "7" :> 7 @@ "8" :> 8 @@ "9" :> 9)

NAString == <<"N", "/", "A">>

\* Python values that are not strings, where a string is expected: None and
\* the float 4.5. Each is a one-element sequence holding its repr.
NoneObject == <<"<None>">>
FloatObject == <<"<4.5>">>

\* isinstance(value, str)
IsStr(value) == value \notin {NoneObject, FloatObject}

Without(str, chars) == SelectSeq(str, LAMBDA c : c \notin chars)

\* str.strip() for the blank
RECURSIVE strip(_)
strip(str) ==
    IF str = <<>> THEN str
    ELSE IF Head(str) = " " THEN strip(Tail(str))
    ELSE IF str[Len(str)] = " " THEN strip(SubSeq(str, 1, Len(str) - 1))
    ELSE str

LowerChar ==
    ("A" :> "a" @@ "B" :> "b" @@ "C" :> "c" @@ "D" :> "d" @@ "E" :> "e"
     @@ "F" :> "f" @@ "G" :> "g" @@ "H" :> "h" @@ "I" :> "i" @@ "J" :>
     "j" @@ "K" :> "k" @@ "L" :> "l" @@ "M" :> "m" @@ "N" :> "n" @@ "O"
     :> "o" @@ "P" :> "p" @@ "Q" :> "q" @@ "R" :> "r" @@ "S" :> "s" @@
     "T" :> "t" @@ "U" :> "u" @@ "V" :> "v" @@ "W" :> "w" @@ "X" :> "x"
     @@ "Y" :> "y" @@ "Z" :> "z")

\* str.lower()
lower(str) ==
    [i \in 1..Len(str) |->
        IF str[i] \in DOMAIN LowerChar THEN LowerChar[str[i]] ELSE str[i]]

RECURSIVE DigitsValue(_, _)
DigitsValue(str, acc) ==
    IF str = <<>> THEN acc
    ELSE DigitsValue(Tail(str), 10 * acc + Digit[Head(str)])

\* float(str) in hundredths, NaN where float() raises ValueError: digits
\* with at most one point and at least one digit; at most two decimals
\* occur in the model's strings.
Float(str) ==
    LET points == {i \in 1..Len(str) : str[i] = "."}
        digits == Without(str, {"."})
        point == IF points = {} THEN Len(str) + 1
                 ELSE CHOOSE i \in points : TRUE
        decimals == Len(str) - point
    IN  IF \/ digits = <<>>
           \/ Cardinality(points) > 1
           \/ \E i \in 1..Len(digits) : digits[i] \notin DOMAIN Digit
        THEN NaN
        ELSE IF decimals <= 0 THEN 100 * DigitsValue(digits, 0)
        ELSE IF decimals = 1 THEN 10 * DigitsValue(digits, 0)
        ELSE DigitsValue(digits, 0)

ParseYieldZero(yield_str) ==
    IF ~IsStr(yield_str) \/ yield_str = NAString THEN 0
    ELSE IF Float(Without(strip(yield_str), {"%"})) = NaN THEN 0
    ELSE Float(Without(strip(yield_str), {"%"}))

\* parse_yield: NaN for a non-string and for 'N/A', else float of the string
\* without '%'
parse_yield(yield_str) ==
    IF ~IsStr(yield_str) \/ yield_str = NAString THEN NaN
    ELSE Float(Without(strip(yield_str), {"%"}))

\* parse_tvl up to the product: float of the string without '$' and ','
\* and without its unit letter (in hundredths, NaN on ValueError), and the
\* multiplier of the unit letter
TvlParts(tvl_str) ==
    LET cleaned == lower(Without(strip(tvl_str), {"$", ","}))
        last == IF cleaned = <<>> THEN "" ELSE cleaned[Len(cleaned)]
        multiplier == CASE last = "b" -> 1000000000
                        [] last = "m" -> 1000000
                        [] last = "k" -> 1000
                        [] OTHER -> 1
        number == IF last \in {"b", "m", "k"}
                  THEN SubSeq(cleaned, 1, Len(cleaned) - 1) ELSE cleaned
    IN  [number |-> Float(number), multiplier |-> multiplier]

\* parse_tvl, in hundredths of a dollar: NaN for a non-string, for 'N/A'
\* and for a string float() rejects
parse_tvl(tvl_str) ==
    IF ~IsStr(tvl_str) \/ tvl_str = NAString THEN NaN
    ELSE IF TvlParts(tvl_str).number = NaN THEN NaN
    ELSE TvlParts(tvl_str).number * TvlParts(tvl_str).multiplier

\* parse_tvl, as whole dollars and cents, for amounts whose hundredths
\* exceed the integers of the checker
parse_tvl_amount(tvl_str) ==
    LET number == TvlParts(tvl_str).number
        multiplier == TvlParts(tvl_str).multiplier
    IN  IF ~IsStr(tvl_str) \/ tvl_str = NAString
        THEN [null |-> TRUE, dollars |-> 0, cents |-> 0]
        ELSE IF number = NaN THEN [null |-> TRUE, dollars |-> 0, cents |-> 0]
        ELSE IF multiplier = 1
        THEN [null |-> FALSE, dollars |-> number \div 100,
              cents |-> number % 100]
        ELSE [null |-> FALSE,
              dollars |-> (number \div 100) * multiplier
                          + (number % 100) * (multiplier \div 100),
              cents |-> 0]

\* "4.50%", "12%", "N/A", "?", "TBD", None
YieldStrings == {<<"4", ".", "5", "0", "%">>, <<"1", "2", "%">>, NAString,
                 <<"?">>, <<"T", "B", "D">>, NoneObject}

\* "$1.5M", "$895K", "N/A", 4.5
TvlStrings == {<<"$", "1", ".", "5", "M">>, <<"$", "8", "9", "5", "K">>,
               NAString, FloatObject}

\* One entry of MANUAL_STABLECOIN_DATA; a key the entry lacks reads as 'N/A'.
ManualEntries == [Ticker : {"SUSDF"}, Yield : YieldStrings, TVL : TvlStrings]

\* Series.replace(['', '?', None, np.nan], 'N/A')
CleanNA(str) == IF str \in {<<>>, <<"?">>, NoneObject} THEN NAString ELSE str

YieldSortCol(r) == parse_yield(r.Yield)

StablecoinColumns == {"Project", "Ticker", "Yield", "TVL", "Description",
                      "Staked Proportion"}
EnhancedColumns == {"Project", "Asset Symbol", "APY", "TVL_USD",
                    "Strategy Type", "Description", "Staked Proportion"}

\* get_stablecoin_yields_data(manual_stablecoin_data)
get_stablecoin_yields_data(manual) ==
    LET sorted == SortDesc(manual, [i \in 1..Len(manual) |->
                                       YieldSortCol(manual[i])])
    IN  IF manual = <<>>
        THEN create_error_dataframe("warning", "Manual stablecoin data is empty")
        ELSE DataFrame(StablecoinColumns,
                       [i \in 1..Len(sorted) |->
                           [Ticker |-> sorted[i].Ticker,
                            Yield |-> CleanNA(sorted[i].Yield),
                            TVL |-> CleanNA(sorted[i].TVL)]])

EnhancedRow(r) ==
    [symbol |-> r.Ticker, apy |-> parse_yield(r.Yield),
     tvl |-> parse_tvl(r.TVL)]

\* dropna(subset=['APY', 'TVL_USD'])
HasNumbers(r) == r.apy # NaN /\ r.tvl # NaN

\* get_enhanced_analytics_data(manual_stablecoin_data)
get_enhanced_analytics_data(manual) ==
    LET manual_yield_data == get_stablecoin_yields_data(manual)
        parsed == [i \in 1..Len(manual_yield_data.rows) |->
                      EnhancedRow(manual_yield_data.rows[i])]
    IN  IF manual_yield_data.columns \cap {"warning", "error"} # {}
        THEN create_error_dataframe("error", "Failed to load manual source data")
        ELSE IF manual_yield_data.rows = <<>>
        THEN create_error_dataframe("warning", "Manual source data is empty")
        ELSE DataFrame(EnhancedColumns, SelectSeq(parsed, HasNumbers))

----------------------------------------------------------------------------
(* One call of a view assembler on inputs drawn in the initial state *)

NoOutput == [kind |-> "pending", columns |-> {}, rows |-> <<>>]

\* The arguments of one call of a pool view assembler.
PoolInputs ==
    [name : {"pools"}, base : FetchedPools, min_tvl : MinTvls,
     targets : TargetSets, meta : MetaTables, locals : {NoLocals},
     out : {NoOutput}]

\* The argument of one call of a curated-map assembler.
ManualInputs ==
    [name : {"manual"}, manual : SeqsUpTo(ManualEntries, MaxEntries),
     out : {NoOutput}]

GetYieldData ==
    /\ view.name = "pools"
    /\ view' = [view EXCEPT
                  !.name = "get_yield_data",
                  !.meta = stablecoin_metadata_df(view.base, view.min_tvl,
                                                  view.targets, view.meta),
                  !.locals = PoolLocals(view.base, view.min_tvl,
                                        view.targets, view.meta),
                  !.out = get_yield_data(view.base, view.min_tvl,
                                         view.targets, view.meta)]
    /\ UNCHANGED notPipe

GetAnalyticsData ==
    /\ view.name = "pools"
    /\ view' = [view EXCEPT
                  !.name = "get_analytics_data",
                  !.meta = stablecoin_metadata_df(view.base, view.min_tvl,
                                                  view.targets, view.meta),
                  !.locals = PoolLocals(view.base, view.min_tvl,
                                        view.targets, view.meta),
                  !.out = get_analytics_data(view.base, view.min_tvl,
                                             view.targets, view.meta)]
    /\ UNCHANGED notPipe

GetStablecoinYieldsData ==
    /\ view.name = "manual"
    /\ view' = [view EXCEPT
                  !.name = "get_stablecoin_yields_data",
                  !.out = get_stablecoin_yields_data(view.manual)]
    /\ UNCHANGED notPipe

GetEnhancedAnalyticsData ==
    /\ view.name = "manual"
    /\ view' = [view EXCEPT
                  !.name = "get_enhanced_analytics_data",
                  !.out = get_enhanced_analytics_data(view.manual)]
    /\ UNCHANGED notPipe

InitPipe == InitBase /\ view \in PoolInputs \cup ManualInputs

NextPipe ==
    \/ GetYieldData
    \/ GetAnalyticsData
    \/ GetStablecoinYieldsData
    \/ GetEnhancedAnalyticsData

SpecPipe == InitPipe /\ [][NextPipe]_vars

----------------------------------------------------------------------------
(* Claims about fetch_data_with_retries (SpecFetch) *)

\* C1: fetch_data_with_retries always returns a value (the parsed payload or
\* None) and never lets an exception escape, also on a pre-dispatch failure
\* (invalid URL, rate limit exceeded); when every attempt fails it returns
\* None.
C1_NeverRaises ==
    /\ result.kind # "raise"
    /\ (pc = "done" /\ outcome # "ok") => result = NoneValue

\* C2: when the first k attempts fail and attempt k+1 succeeds (k < retries),
\* the call returns the payload of attempt k+1, after exactly k+1 GETs and
\* exactly k delays.
C2_RetryThenSuccess ==
    (pc = "done" /\ outcome = "ok") =>
        /\ result = response
        /\ result.kind = "object"
        /\ failed < retries
        /\ gets = failed + 1
        /\ delays = failed

C2_Witness ==
    /\ pc = "done" /\ outcome = "ok"
    /\ retries = API_RETRIES /\ failed = 2 /\ delays = 2 /\ gets = 3
    /\ result = JsonObject({"data"})

\* C3: a call issues at most retries GETs and at most retries - 1 delays; the
\* attempt counter grows by one with every failed attempt, and the loop is
\* only ever entered with attempts left, so it cannot run for ever.
C3_Bounded ==
    /\ gets <= retries
    /\ delays <= retries - 1
    /\ attempt = failed
    /\ gets = failed + (IF outcome = "ok" THEN 1 ELSE 0)
    /\ pc = "loop" => attempt < retries

C3_Witness ==
    /\ pc = "done" /\ result = NoneValue
    /\ retries = MaxRetries /\ gets = retries /\ delays = retries - 1
    /\ last_error = "ValidationError"

\* C4 as claimed: a response that parses but lacks a required key ends the
\* fetch with the failure value at that attempt, with no delay and no further
\* GET.
C4_NotRetried ==
    outcome = "ValidationError" =>
        /\ pc = "done"
        /\ result = NoneValue
        /\ delays = failed - 1

\* C4 as amended: a response that parses but lacks a required key is handled
\* like a transient failure. While attempts are left the delay is invoked and
\* the loop goes on to a further GET; only on the last attempt does the fetch
\* end with the failure value, without a delay.
C4_RetriedLikeTransient ==
    outcome = "ValidationError" =>
        IF attempt < retries
        THEN pc = "loop" /\ result = NoResult /\ delays = failed
        ELSE pc = "done" /\ result = NoneValue /\ delays = failed - 1

C4_Witness ==
    /\ outcome = "ValidationError"
    /\ response = JsonObject({}) /\ expected_keys = {"data"}
    /\ pc = "loop" /\ gets = 1 /\ delays = 1 /\ retries = API_RETRIES

\* C5: a call made while the count of the URL's domain has reached the
\* ceiling inside the current window issues no GET and no delay.
C5_BlockedCallIssuesNothing ==
    [][ ( /\ pc # "loop"
          /\ url'.netloc \in DOMAIN RATE_LIMIT_STORE
          /\ RATE_LIMIT_STORE[url'.netloc].count >= RATE_LIMIT_REQUESTS_PER_MINUTE
          /\ now' - RATE_LIMIT_STORE[url'.netloc].window_start
                 <= RATE_LIMIT_WINDOW_SECONDS )
        => (pc' = "done" /\ gets' = 0 /\ delays' = 0) ]_vars

C5_Witness ==
    /\ pc = "done" /\ outcome = "RateLimitExceededError"
    /\ RATE_LIMIT_STORE["yields.llama.fi"].count = RATE_LIMIT_REQUESTS_PER_MINUTE
    /\ gets = 0 /\ delays = 0

\* C6: the outcome of a call blocked by the rate limiter is a result value
\* that differs from the failure value of a call whose attempts all failed.
C6_RateLimitDistinct ==
    (pc = "done" /\ outcome = "RateLimitExceededError") =>
        (result.kind # "raise" /\ result # NoneValue)

----------------------------------------------------------------------------
(* Claims about rate_limit_request (SpecRL) *)

\* A lower bound of the number of calls of domain d admitted in the 60
\* consecutive seconds that end at last_request: the calls of the current
\* window when they all lie in these seconds, and the last call admitted
\* before the window opened when it does too.
AdmittedInLast60(d) ==
    LET e == RATE_LIMIT_STORE[d]
        from == e.last_request - (RATE_LIMIT_WINDOW_SECONDS - 1)
    IN  (IF e.window_start >= from THEN rl.admitted[d] ELSE 0)
        + (IF rl.prevLast[d] >= from THEN 1 ELSE 0)

\* C7 as claimed: a sliding counter, at most 60 calls of a domain are
\* admitted in any 60 consecutive seconds.
C7_SlidingWindow ==
    \A d \in DOMAIN RATE_LIMIT_STORE :
        AdmittedInLast60(d) <= RATE_LIMIT_REQUESTS_PER_MINUTE

\* In every step at most one domain's entry changes, and no entry is removed.
OneDomainPerCall ==
    /\ DOMAIN RATE_LIMIT_STORE \subseteq DOMAIN RATE_LIMIT_STORE'
    /\ \A d1, d2 \in DOMAIN RATE_LIMIT_STORE' :
         ( /\ d1 # d2
           /\ d1 \in DOMAIN RATE_LIMIT_STORE
                 => RATE_LIMIT_STORE'[d1] # RATE_LIMIT_STORE[d1] )
         => ( /\ d2 \in DOMAIN RATE_LIMIT_STORE
              /\ RATE_LIMIT_STORE'[d2] = RATE_LIMIT_STORE[d2] )

\* C7 as amended: a fixed-window counter per domain. A window opens at the
\* first call of the domain and at the first call that arrives more than 60 s
\* after window_start; at most 60 calls are admitted per window, all of them
\* within [window_start, window_start + 60]; calls of one domain never change
\* the entry of another domain.
C7_FixedWindow ==
    /\ [](\A d \in DOMAIN RATE_LIMIT_STORE :
            /\ rl.admitted[d] <= RATE_LIMIT_REQUESTS_PER_MINUTE
            /\ rl.admitted[d] = RATE_LIMIT_STORE[d].count
            /\ RATE_LIMIT_STORE[d].window_start <= RATE_LIMIT_STORE[d].last_request
            /\ RATE_LIMIT_STORE[d].last_request
                  <= RATE_LIMIT_STORE[d].window_start + RATE_LIMIT_WINDOW_SECONDS)
    /\ [][OneDomainPerCall]_vars

C7_Witness ==
    /\ DOMAIN RATE_LIMIT_STORE = Domains
    /\ RATE_LIMIT_STORE[YieldsUrl.netloc].count = RATE_LIMIT_REQUESTS_PER_MINUTE
    /\ rl.admitted[YieldsUrl.netloc] = RATE_LIMIT_REQUESTS_PER_MINUTE
    /\ rl.prevLast[YieldsUrl.netloc] = RATE_LIMIT_WINDOW_SECONDS
    /\ RATE_LIMIT_STORE[YieldsUrl.netloc].window_start
          = RATE_LIMIT_WINDOW_SECONDS + 1
    /\ RATE_LIMIT_STORE[StablecoinsUrl.netloc].count = 1

----------------------------------------------------------------------------
(* Claims about memory_cache (SpecCache) *)

\* After a call of a cached function: it was a hit iff a result of that key
\* had been stored less than Ttl before; a hit returns that result without
\* running the function; a miss runs it and its result replaces the entry.
CallServedByTtl ==
    call.key # "" =>
        LET k == call.key IN
        /\ call.hit <=> ( /\ call.before.time >= 0
                          /\ call.time - call.before.time < Ttl )
        /\ call.hit => /\ ~call.executed
                       /\ call.returned = call.before.value
                       /\ call.stored[k] = call.before
        /\ ~call.hit => /\ call.executed
                        /\ call.stored[k] = [time |-> call.time,
                                              value |-> call.returned]

\* The cache holds, for each key, the result stored last, unless that result
\* has reached its TTL.
EntriesAreLastStored ==
    \A k \in CacheKeys :
        IF k \in DOMAIN MEMORY_CACHE
        THEN MEMORY_CACHE[k] = [result |-> call.stored[k].value,
                                timestamp |-> call.stored[k].time,
                                ttl |-> Ttl]
        ELSE call.stored[k].time >= 0 => now - call.stored[k].time >= Ttl

\* An entry leaves the cache only at an age of at least its ttl.
RemovedOnlyWhenExpired ==
    \A k \in DOMAIN MEMORY_CACHE :
        k \notin DOMAIN MEMORY_CACHE' =>
            now' - MEMORY_CACHE[k].timestamp >= MEMORY_CACHE[k].ttl

----------------------------------------------------------------------------
(* Claims about the view assemblers (SpecPipe) *)

SentinelColumns == {"error", "warning", "warning_tvl"}
IsSentinel(df) == df.kind = "df" /\ df.columns \cap SentinelColumns # {}
IsTable(df) == df.kind = "df" /\ df.columns \cap SentinelColumns = {}
Called == view.name \notin {"pools", "manual"}
PoolCalled == view.name \in {"get_yield_data", "get_analytics_data"}

\* C9: a view assembler returns a table with at least one data row and no
\* sentinel column, or a sentinel; never an empty table without a sentinel.
C9_TableOrSentinel ==
    Called => \/ IsSentinel(view.out)
              \/ IsTable(view.out) /\ Len(view.out.rows) >= 1

\* The outcome the order of C10 prescribes for the inputs of the call.
Prescribed ==
    LET passing == {i \in 1..Len(view.base.rows) :
                      \/ view.base.rows[i].stablecoin
                      \/ view.base.rows[i].join_symbol \in view.targets}
    IN  IF view.base.kind # "df" THEN "error"
        ELSE IF passing = {} THEN "warning"
        ELSE IF \A i \in passing :
                   \/ view.base.rows[i].tvlUsd = NaN
                   \/ view.base.rows[i].tvlUsd <= view.min_tvl
        THEN "warning_tvl"
        ELSE "table"

Outcome(df) ==
    IF df.kind # "df" THEN df.kind
    ELSE IF IsSentinel(df) THEN CHOOSE c \in df.columns : TRUE
    ELSE "table"

\* C10: the pool pipeline returns Error iff the fetch failed, else
\* NoMatchBase iff no record passes the relevance filter, else
\* NoMatchThreshold iff none of the relevant records has tvlUsd > minSize,
\* else a table.
C10_OutcomeOrder == PoolCalled => Outcome(view.out) = Prescribed

\* The order of C10 on every call in which the fetch did not raise.
OutcomeOrderUnlessRaised ==
    (PoolCalled /\ view.base.kind # "raise") => Outcome(view.out) = Prescribed

----------------------------------------------------------------------------
(* Claims about the filter and join steps of the pool assemblers (SpecPipe) *)

Count(rows, r) == Cardinality({i \in DOMAIN rows : rows[i] = r})

\* C11: the relevance filter keeps a pool record iff its stablecoin flag is
\* true or its join_symbol is in the target set; with an empty target set
\* exactly the flagged records are kept.
C11_RelevanceFilter ==
    PoolCalled =>
        LET kept == view.locals.relevant_pools_df
        IN  /\ \A r \in PoolRecords :
                  Count(kept, r) =
                      IF r.stablecoin \/ r.join_symbol \in view.targets
                      THEN Count(view.base.rows, r) ELSE 0
            /\ view.targets = {} =>
                  \A i \in DOMAIN kept : kept[i].stablecoin

\* An unflagged target asset is kept and an unflagged other asset dropped.
C11_Witness ==
    /\ PoolCalled
    /\ view.targets = {"susdf"}
    /\ \E i \in DOMAIN view.base.rows : view.base.rows[i].symbol = "XYZ"
    /\ Len(view.locals.relevant_pools_df) = 1
    /\ view.locals.relevant_pools_df[1].symbol = "sUSDf"
    /\ ~view.locals.relevant_pools_df[1].stablecoin

\* C12: the threshold filter keeps a relevant record iff its tvlUsd is not
\* null and strictly greater than min_tvl; when it drops every relevant
\* record the result is the warning_tvl sentinel.
C12_ThresholdFilter ==
    PoolCalled =>
        LET relevant == view.locals.relevant_pools_df
            kept == view.locals.filtered_tvl_df
        IN  /\ \A r \in PoolRecords :
                  Count(kept, r) =
                      IF r.tvlUsd # NaN /\ r.tvlUsd > view.min_tvl
                      THEN Count(relevant, r) ELSE 0
            /\ (relevant # <<>> /\ kept = <<>>) =>
                  Outcome(view.out) = "warning_tvl"

\* A record with tvlUsd = min_tvl and one with null tvlUsd are both dropped.
C12_Witness ==
    /\ PoolCalled
    /\ view.min_tvl = 1
    /\ \E i, j \in DOMAIN view.locals.relevant_pools_df :
          /\ view.locals.relevant_pools_df[i].tvlUsd = view.min_tvl
          /\ view.locals.relevant_pools_df[j].tvlUsd = NaN
    /\ view.locals.filtered_tvl_df = <<>>
    /\ Outcome(view.out) = "warning_tvl"

\* Number of input records that pass the relevance and threshold predicates.
PassingBoth ==
    Cardinality({i \in DOMAIN view.base.rows :
                    /\ \/ view.base.rows[i].stablecoin
                       \/ view.base.rows[i].join_symbol \in view.targets
                    /\ view.base.rows[i].tvlUsd # NaN
                    /\ view.base.rows[i].tvlUsd > view.min_tvl})

\* C13: the table get_yield_data returns has exactly as many rows as there
\* are input records passing both filters, whatever the metadata table.
C13_JoinKeepsRowCount ==
    (view.name = "get_yield_data" /\ IsTable(view.out)) =>
        Len(view.out.rows) = PassingBoth

\* Two pool rows, one matching a join_symbol that the metadata holds twice
\* and one the metadata does not hold.
C13_Witness ==
    /\ view.name = "get_yield_data"
    /\ IsTable(view.out)
    /\ Len(view.out.rows) = 2
    /\ Len(view.meta.rows) = 2
    /\ view.meta.rows[1].join_symbol = view.meta.rows[2].join_symbol
    /\ \E i, j \in 1..2 : /\ view.out.rows[i].name = "Circle"
                          /\ view.out.rows[j].name = "N/A"

\* The merge of data_processing.py:78-100 applied to rows that already carry
\* the metadata columns: suffixes=('', '_meta') leaves the left name as it
\* is and adds the right one as name_meta; without metadata the name column
\* exists already and is not filled again.
MergeMetadataAgain(merged, meta) ==
    IF Mergeable(meta)
    THEN LET right == meta_subset(meta)
             joined == merge_left([i \in 1..Len(merged) |-> merged[i].row],
                                  right)
             \* the left row a joined row came from: joined rows follow the
             \* left rows in order, one per match
             Origin(k) ==
                 CHOOSE i \in 1..Len(merged) :
                     Len(merge_left([j \in 1..(i - 1) |-> merged[j].row],
                                    right)) < k
                     /\ k <= Len(merge_left([j \in 1..i |-> merged[j].row],
                                            right))
         IN  [k \in 1..Len(joined) |->
                 [row |-> joined[k].row, name |-> merged[Origin(k)].name,
                  name_meta |-> joined[k].name]]
    ELSE [i \in 1..Len(merged) |->
             [row |-> merged[i].row, name |-> merged[i].name,
              name_meta |-> NoneName]]

\* The filter and join steps of data_processing.py:56-105 run on the rows of
\* merged_df, with the same min_tvl, target set and metadata.
SelectAgain(merged, min_tvl, targets, meta) ==
    LET relevant == SelectSeq(merged, LAMBDA m : Relevant(m.row, targets))
        filtered == SelectSeq(relevant, LAMBDA m : AboveMin(m.row, min_tvl))
        again == MergeMetadataAgain(filtered, meta)
    IN  [i \in 1..Len(again) |->
            [row |-> again[i].row, name |-> again[i].name]]

\* C14: running the relevance filter, the threshold filter and the metadata
\* join again on the rows of a successful result, with the same min_tvl,
\* target set and metadata, returns the same rows.
C14_SelectIdempotent ==
    (PoolCalled /\ IsTable(view.out)) =>
        SelectAgain(view.locals.merged_df, view.min_tvl, view.targets,
                    view.meta) = view.locals.merged_df

\* A successful result of two rows, one of them joined to metadata that
\* holds its join_symbol twice.
C14_Witness ==
    /\ PoolCalled
    /\ IsTable(view.out)
    /\ Len(view.locals.merged_df) = 2
    /\ Len(view.meta.rows) = 2
    /\ view.meta.rows[1].join_symbol = view.meta.rows[2].join_symbol
    /\ view.locals.merged_df[1].name = "Circle"
    /\ view.min_tvl = 1

----------------------------------------------------------------------------
(* utils/api.py: fetch_defillama_yield_pools, from the payload to the       *)
(* normalized table. A JSON value is its type and its text.                 *)

MaxRaw == 2              \* the payload has at most MaxRaw records

Missing == [type |-> "missing", text |-> ""]     \* the record lacks the key
JNull == [type |-> "null", text |-> ""]
JString(s) == [type |-> "string", text |-> s]
JNumber(s) == [type |-> "number", text |-> s]
JBool(s) == [type |-> "bool", text |-> s]

\* Loosely typed pool records of the payload's "data" list.
RawRecords ==
    [symbol : {Missing, JNull, JString("USDC"), JString("sUSDf")},
     stablecoin : {Missing, JBool("true"), JString("yes")},
     tvlUsd : {Missing, JNumber("2"), JString("abc")},
     apy : {JNumber("1")}]

\* What fetch_data_with_retries gives fetch_defillama_yield_pools: the
\* escaping NameError, None, an object whose "data" is not a list, or an
\* object with a list of records.
Payloads ==
    {[kind |-> k, data |-> <<>>] : k \in {"raise", "None", "notlist"}}
    \cup {[kind |-> "list", data |-> d] : d \in SeqsUpTo(RawRecords, MaxRaw)}

\* pd.DataFrame(records) has a column for a key iff some record has the key.
HasColumn(data, col) == \E i \in DOMAIN data : data[i][col].type # "missing"

NumberOf == ("0" :> 0 @@ "1" :> 1 @@ "2" :> 2)

\* pd.to_numeric(errors="coerce") on one cell: numbers and numeric strings
\* are their value, booleans are 1 and 0, everything else is NaN.
to_numeric(v) ==
    IF v.type \in {"number", "string"} /\ v.text \in DOMAIN NumberOf
    THEN NumberOf[v.text]
    ELSE IF v.type = "bool" THEN (IF v.text = "true" THEN 1 ELSE 0)
    ELSE NaN

\* api.py:277-279  to_numeric(coerce).fillna(0).astype(bool); the default of
\* an absent column is False
StablecoinCell(data, i) ==
    IF ~HasColumn(data, "stablecoin") THEN FALSE
    ELSE to_numeric(data[i].stablecoin) \notin {NaN, 0}

\* api.py:284  astype(str): the NaN that fills a key one record lacks reads
\* 'nan', a JSON null reads 'None' (pandas before 3.0); the default of an
\* absent column is ''
SymbolCell(data, i) ==
    IF ~HasColumn(data, "symbol") THEN ""
    ELSE CASE data[i].symbol.type = "missing" -> "nan"
           [] data[i].symbol.type = "null" -> "None"
           [] OTHER -> data[i].symbol.text

\* api.py:288-298  to_numeric(coerce); the default of an absent column is NA
NumericCell(data, i, col) ==
    IF ~HasColumn(data, col) THEN NaN ELSE to_numeric(data[i][col])

NormalizeDropNull(data) ==
    LET kept == SelectSeq(data, LAMBDA r : to_numeric(r.tvlUsd) # NaN)
    IN  [i \in 1..Len(kept) |->
            PoolRecord(SymbolCell(kept, i), StablecoinCell(kept, i),
                       NumericCell(kept, i, "tvlUsd"),
                       NumericCell(kept, i, "apy"))]

\* api.py:256-302: one row per record of the list
normalize(data) ==
    [i \in 1..Len(data) |->
        PoolRecord(SymbolCell(data, i), StablecoinCell(data, i),
                   NumericCell(data, i, "tvlUsd"),
                   NumericCell(data, i, "apy"))]

\* fetch_defillama_yield_pools() on what the fetch gave
fetch_defillama_yield_pools(payload) ==
    IF payload.kind = "raise" THEN [kind |-> "raise", rows |-> <<>>]
    ELSE IF payload.kind \in {"None", "notlist"}
    THEN [kind |-> "None", rows |-> <<>>]
    ELSE [kind |-> "df", rows |-> normalize(payload.data)]

NormInputs ==
    [name : {"payload"}, payload : Payloads,
     out : {[kind |-> "pending", rows |-> <<>>]}]

FetchDefillamaYieldPools ==
    /\ view.name = "payload"
    /\ view' = [view EXCEPT
                  !.name = "fetch_defillama_yield_pools",
                  !.out = fetch_defillama_yield_pools(view.payload)]
    /\ UNCHANGED notPipe

InitNorm == InitBase /\ view \in NormInputs

NextNorm == FetchDefillamaYieldPools

SpecNorm == InitNorm /\ [][NextNorm]_vars

----------------------------------------------------------------------------
(* Claims about the normalizer (SpecNorm) *)

Normalized ==
    view.name = "fetch_defillama_yield_pools" /\ view.payload.kind = "list"

\* C15: on a payload with a list of records the normalizer returns a table
\* with exactly one row per record, in the order of the records.
C15_RowPreserving ==
    Normalized =>
        /\ view.out.kind = "df"
        /\ Len(view.out.rows) = Len(view.payload.data)
        /\ \A i \in DOMAIN view.payload.data :
              LET raw == view.payload.data[i]
                  row == view.out.rows[i]
              IN  /\ raw.symbol.type = "string" => row.symbol = raw.symbol.text
                  /\ row.tvlUsd # NaN <=> raw.tvlUsd.type = "number"
                  /\ row.stablecoin <=> raw.stablecoin.type = "bool"

\* Two different records, the first with a missing symbol and a non-numeric
\* tvlUsd, both present in the result in their order.
C15_Witness ==
    /\ Normalized
    /\ Len(view.payload.data) = 2
    /\ view.payload.data[1].symbol = Missing
    /\ view.payload.data[1].tvlUsd = JString("abc")
    /\ view.payload.data[2].symbol = JString("sUSDf")
    /\ Len(view.out.rows) = 2
    /\ view.out.rows[1].tvlUsd = NaN
    /\ view.out.rows[2].symbol = "sUSDf"

\* C16: in every normalized record join_symbol is the lowercased symbol, and
\* a record whose symbol key is missing has symbol and join_symbol ''.
C16_JoinSymbol ==
    Normalized =>
        \A i \in DOMAIN view.out.rows :
            /\ view.out.rows[i].join_symbol = Lower[view.out.rows[i].symbol]
            /\ view.payload.data[i].symbol = Missing =>
                  /\ view.out.rows[i].symbol = ""
                  /\ view.out.rows[i].join_symbol = ""

----------------------------------------------------------------------------
(* Claims about the tables of the four view assemblers (SpecPipe) *)

\* The yield of each row of the returned table, NaN where it is null: the
\* number behind the formatted APY, the parsed Yield string, or the APY.
OutYields ==
    [i \in DOMAIN view.out.rows |->
        CASE view.name = "get_yield_data" ->
                 IF view.out.rows[i].apy = NA THEN NaN
                 ELSE view.out.rows[i].apy.num
          [] view.name = "get_stablecoin_yields_data" ->
                 parse_yield(view.out.rows[i].Yield)
          [] OTHER -> view.out.rows[i].apy]

SortedDescNullsLast(keys) ==
    \A i \in 1..(Len(keys) - 1) :
        keys[i + 1] = NaN \/ (keys[i] # NaN /\ keys[i] >= keys[i + 1])

\* C17: the table each of the four view assemblers returns is sorted by
\* yield descending with null yields last.
C17_SortedByYield ==
    (Called /\ IsTable(view.out)) => SortedDescNullsLast(OutYields)

\* The APY of the input records that pass both filters and have APY and TVL,
\* in the order of the input.
SelectedApys ==
    LET selected ==
            SelectSeq(view.base.rows,
                      LAMBDA r : /\ r.stablecoin \/ r.join_symbol \in view.targets
                                 /\ r.tvlUsd # NaN /\ r.tvlUsd > view.min_tvl
                                 /\ r.apy # NaN)
    IN  [i \in DOMAIN selected |-> selected[i].apy]

\* C17 as the code has it: get_yield_data, get_stablecoin_yields_data and
\* get_enhanced_analytics_data return their rows sorted by yield descending
\* with null yields last; get_analytics_data returns its rows in the order
\* of the fetched records.
C17_SortedExceptPoolAnalytics ==
    (Called /\ IsTable(view.out)) =>
        IF view.name = "get_analytics_data"
        THEN OutYields = SelectedApys
        ELSE SortedDescNullsLast(OutYields)

\* get_yield_data turns records fetched in the order null, 1, 2 ... around.
C17_Witness ==
    /\ view.name = "get_yield_data"
    /\ IsTable(view.out)
    /\ Len(view.out.rows) = 2
    /\ view.base.rows[1].apy = NaN
    /\ view.base.rows[2].apy = 2
    /\ OutYields = <<2, NaN>>

\* Curated strings that stand for a missing value.
NullStrings == {NAString, <<"?">>, <<>>, NoneObject}

\* Pool analytics: exactly the selected records with APY and TVL, as numbers.
AnalyticsKeepsComplete ==
    (view.name = "get_analytics_data" /\ IsTable(view.out)) =>
        /\ \A i \in DOMAIN view.out.rows :
              /\ view.out.rows[i].apy \in Nat
              /\ view.out.rows[i].tvl \in Nat
        /\ Len(view.out.rows) =
              Cardinality({i \in DOMAIN view.base.rows :
                  /\ \/ view.base.rows[i].stablecoin
                     \/ view.base.rows[i].join_symbol \in view.targets
                  /\ view.base.rows[i].tvlUsd # NaN
                  /\ view.base.rows[i].tvlUsd > view.min_tvl
                  /\ view.base.rows[i].apy # NaN})

\* Curated analytics: exactly the entries whose Yield and TVL parse.
EnhancedKeepsComplete ==
    (view.name = "get_enhanced_analytics_data" /\ IsTable(view.out)) =>
        /\ \A i \in DOMAIN view.out.rows :
              /\ view.out.rows[i].apy \in Nat
              /\ view.out.rows[i].tvl \in Nat
        /\ Len(view.out.rows) =
              Cardinality({i \in DOMAIN view.manual :
                  /\ parse_yield(view.manual[i].Yield) # NaN
                  /\ parse_tvl(view.manual[i].TVL) # NaN})

\* Pool display: every selected record, a null APY shown as "N/A".
YieldDataKeepsAll ==
    (view.name = "get_yield_data" /\ IsTable(view.out)) =>
        /\ Len(view.out.rows) = PassingBoth
        /\ Cardinality({i \in DOMAIN view.out.rows :
                           view.out.rows[i].apy.text = "N/A"}) =
           Cardinality({i \in DOMAIN view.locals.filtered_tvl_df :
                           view.locals.filtered_tvl_df[i].apy = NaN})
        /\ \A i \in DOMAIN view.out.rows :
              /\ view.out.rows[i].apy.text \in {"N/A", "%"}
              /\ view.out.rows[i].tvl.text \in {"N/A", "$"}

\* Curated display: every entry, a missing Yield or TVL shown as "N/A".
StablecoinYieldsKeepsAll ==
    (view.name = "get_stablecoin_yields_data" /\ IsTable(view.out)) =>
        /\ Len(view.out.rows) = Len(view.manual)
        /\ \A i \in DOMAIN view.out.rows :
              /\ view.out.rows[i].Yield \notin NullStrings \ {NAString}
              /\ view.out.rows[i].TVL \notin NullStrings \ {NAString}
        /\ Cardinality({i \in DOMAIN view.out.rows :
                           view.out.rows[i].Yield = NAString}) =
           Cardinality({i \in DOMAIN view.manual :
                           view.manual[i].Yield \in NullStrings})

\* C18: the analytics variants return exactly the selected rows whose APY and
\* TVL are both non-null, as numbers; the display variants return every
\* selected row and show a null APY or TVL as "N/A".
C18_DropOrShowNA ==
    /\ AnalyticsKeepsComplete
    /\ EnhancedKeepsComplete
    /\ YieldDataKeepsAll
    /\ StablecoinYieldsKeepsAll

\* Pool analytics drops the record without APY and keeps the complete one.
C18_Witness ==
    /\ view.name = "get_analytics_data"
    /\ IsTable(view.out)
    /\ Len(view.locals.filtered_tvl_df) = 2
    /\ view.locals.filtered_tvl_df[1].apy = NaN
    /\ Len(view.out.rows) = 1
    /\ view.out.rows[1].apy = 2

\* C19: get_yield_data and get_analytics_data return a table or a sentinel
\* for every fetch outcome and never let an exception escape; every sentinel
\* they return carries a non-empty message.
C19_NoExceptionEscapes ==
    PoolCalled =>
        /\ view.out.kind = "df"
        /\ IsSentinel(view.out) =>
              /\ Len(view.out.rows) = 1
              /\ view.out.rows[1].message # ""

\* The statement of C19 on every call in which the fetch did not raise.
NoExceptionUnlessFetchRaised ==
    (PoolCalled /\ view.base.kind # "raise") =>
        /\ view.out.kind = "df"
        /\ IsSentinel(view.out) =>
              /\ Len(view.out.rows) = 1
              /\ view.out.rows[1].message # ""

----------------------------------------------------------------------------
(* Claims about the parsers in the curated analytics pipeline (SpecPipe) *)

Parses(entry) ==
    parse_yield(entry.Yield) # NaN /\ parse_tvl(entry.TVL) # NaN

\* Yield and TVL values of the model that are no number: 'N/A', '?', 'TBD',
\* None and a float where a string is expected.
Unparsable == {NAString, <<"?">>, <<"T", "B", "D">>, NoneObject, FloatObject}

\* C20: parse_yield and parse_tvl give null for every value that is no
\* numeric string and a number for every other; in
\* get_enhanced_analytics_data an entry whose Yield or TVL does not parse
\* neither turns the result into a sentinel nor changes the rows of the
\* other entries.
C20_ParseFailureIsLocal ==
    view.name = "get_enhanced_analytics_data" =>
        /\ \A i \in DOMAIN view.manual :
              /\ parse_yield(view.manual[i].Yield) = NaN
                     <=> view.manual[i].Yield \in Unparsable
              /\ parse_tvl(view.manual[i].TVL) = NaN
                     <=> view.manual[i].TVL \in Unparsable
              /\ parse_yield(view.manual[i].Yield) \in Nat \cup {NaN}
              /\ parse_tvl(view.manual[i].TVL) \in Nat \cup {NaN}
        /\ view.manual # <<>> => IsTable(view.out)
        /\ SelectSeq(view.manual, Parses) # <<>> =>
              view.out = get_enhanced_analytics_data(
                             SelectSeq(view.manual, Parses))

\* Two entries, the first with the Yield 'TBD': the result is the row of the
\* second alone.
C20_Witness ==
    /\ view.name = "get_enhanced_analytics_data"
    /\ Len(view.manual) = 2
    /\ view.manual[1].Yield = <<"T", "B", "D">>
    /\ Parses(view.manual[2])
    /\ IsTable(view.out)
    /\ Len(view.out.rows) = 1
    /\ view.out.rows[1].apy = parse_yield(view.manual[2].Yield)

----------------------------------------------------------------------------
(* utils/formatting.py: categorize_stablecoin_by_strategy *)

MaxPhrases == 2          \* a description is made of at most MaxPhrases phrases

\* The keywords of each test of the if-chain, in the order of the chain.
\* The keywords of each test of formatting.py:73-92, by category.
Keywords ==
    [Rwa |->
        {<<"t", "-", "b", "i", "l", "l">>,
         <<"t", "r", "e", "a", "s", "u", "r", "y">>,
         <<"r", "w", "a">>},
     DeltaNeutral |->
        {<<"d", "e", "l", "t", "a", " ", "n", "e", "u", "t", "r", "a", "l">>,
         <<"f", "u", "n", "d", "i", "n", "g">>,
         <<"c", "a", "s", "h", " ", "&", " ", "c", "a", "r", "r", "y">>,
         <<"d", "e", "l", "t", "a", " ", "n", "e", "u", "t", "r", "a">>,
         <<"p", "e", "r", "p", "s", " ", "f", "u", "n", "d", "i", "n", "g">>},
     Restaking |->
        {<<"r", "e", "s", "t", "a", "k", "i", "n", "g">>},
     ProtocolNative |->
        {<<"n", "a", "t", "i", "v", "e", " ", "p", "r", "o", "t", "o", "c", "o", "l", " ", "y", "i", "e", "l", "d">>,
         <<"p", "r", "o", "t", "o", "c", "o", "l", " ", "r", "e", "v", "e", "n", "u", "e">>,
         <<"i", "n", "t", "e", "r", "e", "s", "t", " ", "p", "a", "i", "d", " ", "b", "y">>,
         <<"s", "a", "f", "e", "t", "y", " ", "m", "o", "d", "u", "l", "e">>,
         <<"n", "a", "t", "i", "v", "e", " ", "d", "e", "x">>,
         <<"s", "k", "y", " ", "s", "a", "v", "i", "n", "g", "s", " ", "r", "a", "t", "e">>},
     Lending |->
        {<<"l", "o", "a", "n">>,
         <<"l", "e", "n", "d">>,
         <<"b", "o", "r", "r", "o", "w", "e", "r", " ", "i", "n", "t", "e", "r", "e", "s", "t">>,
         <<"m", "o", "r", "p", "h", "o", " ", "v", "a", "u", "l", "t">>},
     Index |->
        {<<"i", "n", "d", "e", "x">>,
         <<"d", "i", "v", "e", "r", "s", "i", "f", "i", "e", "d">>,
         <<"m", "i", "x", "t", "u", "r", "e">>},
     Farming |->
        {<<"f", "a", "r", "m", "i", "n", "g">>,
         <<"3", "r", "d", " ", "p", "a", "r", "t", "y", " ", "d", "e", "f", "i">>,
         <<"a", "c", "r", "o", "s", "s", " ", "d", "e", "f", "i", " ", "b", "l", "u", "e", "c", "h", "i", "p", "s">>},
     Trading |->
        {<<"i", "n", "s", "t", "i", "t", "u", "t", "i", "o", "n", "a", "l", " ", "t", "r", "a", "d", "i", "n", "g">>},
     LpFees |->
        {<<"s", "w", "a", "p", " ", "f", "e", "e", "s">>},
     Options |->
        {<<"o", "p", "t", "i", "o", "n">>}]

\* 'keyword' in desc
Contains(str, keyword) ==
    \E i \in 1..(Len(str) - Len(keyword) + 1) :
        SubSeq(str, i, i + Len(keyword) - 1) = keyword

ContainsAny(str, keywords) == \E k \in keywords : Contains(str, k)

\* str(desc): a string is itself, None is 'None', the float is '4.5'
Str(value) ==
    IF value = NoneObject THEN <<"N", "o", "n", "e">>
    ELSE IF value = FloatObject THEN <<"4", ".", "5">>
    ELSE value


CategorizeNoFallback(desc) ==
    LET text == lower(Str(desc))
    IN  IF text = <<"n", "/", "a">> \/ text = <<>> THEN "Unknown/Other"
        ELSE IF ContainsAny(text, Keywords.Rwa)
             THEN "RWA/Treasury-backed"
        ELSE IF ContainsAny(text, Keywords.DeltaNeutral)
             THEN "Delta Neutral/Arb"
        ELSE IF ContainsAny(text, Keywords.Restaking)
             THEN "Restaking"
        ELSE IF ContainsAny(text, Keywords.ProtocolNative)
             THEN "Protocol Native Yield"
        ELSE IF ContainsAny(text, Keywords.Lending)
             THEN "Lending/Borrowing"
        ELSE IF ContainsAny(text, Keywords.Index)
             THEN "Index/Diversified"
        ELSE IF ContainsAny(text, Keywords.Farming)
             THEN "External DeFi Farming"
        ELSE IF ContainsAny(text, Keywords.Trading)
             THEN "Trading Strategy"
        ELSE IF ContainsAny(text, Keywords.LpFees)
             THEN "LP Fees"
        ELSE IF ContainsAny(text, Keywords.Options)
             THEN "Options/Structured Product"
        ELSE ""


CategorizeDeltaNeutralFirst(desc) ==
    LET text == lower(Str(desc))
    IN  IF text = <<"n", "/", "a">> \/ text = <<>> THEN "Unknown/Other"
        ELSE IF ContainsAny(text, Keywords.DeltaNeutral)
             THEN "Delta Neutral/Arb"
        ELSE IF ContainsAny(text, Keywords.Rwa)
             THEN "RWA/Treasury-backed"
        ELSE IF ContainsAny(text, Keywords.Restaking)
             THEN "Restaking"
        ELSE IF ContainsAny(text, Keywords.ProtocolNative)
             THEN "Protocol Native Yield"
        ELSE IF ContainsAny(text, Keywords.Lending)
             THEN "Lending/Borrowing"
        ELSE IF ContainsAny(text, Keywords.Index)
             THEN "Index/Diversified"
        ELSE IF ContainsAny(text, Keywords.Farming)
             THEN "External DeFi Farming"
        ELSE IF ContainsAny(text, Keywords.Trading)
             THEN "Trading Strategy"
        ELSE IF ContainsAny(text, Keywords.LpFees)
             THEN "LP Fees"
        ELSE IF ContainsAny(text, Keywords.Options)
             THEN "Options/Structured Product"
        ELSE "Unknown/Other"

\* categorize_stablecoin_by_strategy(desc)
categorize_stablecoin_by_strategy(desc) ==
    LET text == lower(Str(desc))
    IN  IF text = <<"n", "/", "a">> \/ text = <<>> THEN "Unknown/Other"
        ELSE IF ContainsAny(text, Keywords.Rwa)
             THEN "RWA/Treasury-backed"
        ELSE IF ContainsAny(text, Keywords.DeltaNeutral)
             THEN "Delta Neutral/Arb"
        ELSE IF ContainsAny(text, Keywords.Restaking)
             THEN "Restaking"
        ELSE IF ContainsAny(text, Keywords.ProtocolNative)
             THEN "Protocol Native Yield"
        ELSE IF ContainsAny(text, Keywords.Lending)
             THEN "Lending/Borrowing"
        ELSE IF ContainsAny(text, Keywords.Index)
             THEN "Index/Diversified"
        ELSE IF ContainsAny(text, Keywords.Farming)
             THEN "External DeFi Farming"
        ELSE IF ContainsAny(text, Keywords.Trading)
             THEN "Trading Strategy"
        ELSE IF ContainsAny(text, Keywords.LpFees)
             THEN "LP Fees"
        ELSE IF ContainsAny(text, Keywords.Options)
             THEN "Options/Structured Product"
        ELSE "Unknown/Other"

\* Phrases of curated descriptions: one for each test of the chain, one
\* that holds a keyword inside a word ('forward' holds 'rwa') and one
\* without a keyword.
Phrases ==
    {<<"T", "-", "b", "i", "l", "l", "s">>,
     <<"d", "e", "l", "t", "a", " ", "n", "e", "u", "t", "r", "a", "l", " ", "s", "t", "r", "a", "t", "e", "g", "y">>,
     <<"R", "e", "s", "t", "a", "k", "i", "n", "g">>,
     <<"p", "r", "o", "t", "o", "c", "o", "l", " ", "r", "e", "v", "e", "n", "u", "e">>,
     <<"M", "o", "r", "p", "h", "o", " ", "V", "a", "u", "l", "t">>,
     <<"d", "i", "v", "e", "r", "s", "i", "f", "i", "e", "d">>,
     <<"y", "i", "e", "l", "d", " ", "f", "a", "r", "m", "i", "n", "g">>,
     <<"i", "n", "s", "t", "i", "t", "u", "t", "i", "o", "n", "a", "l", " ", "t", "r", "a", "d", "i", "n", "g">>,
     <<"s", "w", "a", "p", " ", "f", "e", "e", "s">>,
     <<"o", "p", "t", "i", "o", "n", "s">>,
     <<"f", "o", "r", "w", "a", "r", "d">>,
     <<"s", "t", "a", "b", "l", "e">>}

RECURSIVE PhraseTexts(_)
PhraseTexts(n) ==
    IF n = 1 THEN Phrases
    ELSE PhraseTexts(n - 1)
         \cup {t \o <<" ">> \o p : t \in PhraseTexts(n - 1), p \in Phrases}

\* The values given to the classifier: texts of phrases, '', 'N/A', 'n/a',
\* None and a float.
Descriptions ==
    PhraseTexts(MaxPhrases)
    \cup {<<>>, NAString, <<"n", "/", "a">>, NoneObject, FloatObject}

DescriptionInputs == [name : {"description"}, desc : Descriptions, out : {""}]

CategorizeStablecoinByStrategy ==
    /\ view.name = "description"
    /\ view' = [view EXCEPT
                  !.name = "categorize_stablecoin_by_strategy",
                  !.out = categorize_stablecoin_by_strategy(view.desc)]
    /\ UNCHANGED notPipe


----------------------------------------------------------------------------
(* format_tvl and format_apy on the characters they print               *)
(* (src/utils/formatting.py)                                            *)

MaxThousandths == 1100   \* APY values 0.000 .. 1.100 in steps of 0.001
MaxDollars == 1100       \* every whole-dollar TVL 0 .. MaxDollars

DigitChar == <<"0", "1", "2", "3", "4", "5", "6", "7", "8", "9">>

\* str(n) for a natural number
RECURSIVE NatToStr(_)
NatToStr(n) ==
    IF n < 10 THEN <<DigitChar[n + 1]>>
    ELSE NatToStr(n \div 10) \o <<DigitChar[(n % 10) + 1]>>

\* The digits of q / 10^decimals with exactly `decimals` decimals.
Fixed(q, decimals) ==
    IF decimals = 0 THEN NatToStr(q)
    ELSE LET scale == IF decimals = 1 THEN 10 ELSE 100
             whole == NatToStr(q \div scale)
             frac == NatToStr(q % scale)
             pad == [i \in 1..(decimals - Len(frac)) |-> "0"]
         IN  whole \o <<".">> \o pad \o frac

\* Rounding of q + twice/(2*full) quanta of 10^-decimals to a whole number
\* of quanta, as the float formatting does it: to the nearest, and on a tie
\* by the binary value of the float. The tie (2q+1)/(2*10^decimals) is a
\* binary fraction only when 5^decimals divides 2q+1, and is then rounded
\* to even; otherwise the float lies just above or below the tie, and `up`
\* says which.
RoundHalf(q, twice, full, decimals, up) ==
    LET fives == IF decimals = 1 THEN 5 ELSE 25
        exact == decimals = 0 \/ (2 * q + 1) % fives = 0
    IN  IF twice < full THEN q
        ELSE IF twice > full THEN q + 1
        ELSE IF exact THEN (IF q % 2 = 0 THEN q ELSE q + 1)
        ELSE IF up THEN q + 1 ELSE q

\* A Python value given to a formatter: None, NaN, a string, or the number
\* (-1)^neg * (dollars + cents/100).
NonNumber(kind) == [kind |-> kind, neg |-> FALSE, dollars |-> 0, cents |-> 0]
Num(neg, dollars, cents) ==
    [kind |-> "num", neg |-> neg, dollars |-> dollars, cents |-> cents]

\* An APY number, thousandths/1000.
ApyNum(thousandths) == [kind |-> "num", neg |-> FALSE,
                        thousandths |-> thousandths]

\* pd.isna(x) or not isinstance(x, (int, float))
NotANumber(arg) == arg.kind # "num"

Sign(arg) == IF arg.neg THEN <<"-">> ELSE <<>>

\* f"{tvl / scale:.<decimals>f}" for scale = unit * 10^decimals dollars
Scaled(arg, unit, decimals, up) ==
    Sign(arg) \o
    Fixed(RoundHalf(arg.dollars \div unit,
                    2 * ((arg.dollars % unit) * 100 + arg.cents),
                    unit * 100, decimals, up), decimals)

\* format_tvl with the thresholds tested on tvl instead of abs(tvl)
FormatTvlSigned(tvl, up) ==
    IF NotANumber(tvl) \/ (tvl.dollars = 0 /\ tvl.cents = 0) THEN NAString
    ELSE IF ~tvl.neg /\ tvl.dollars >= 1000000000
    THEN <<"$">> \o Scaled(tvl, 10000000, 2, up) \o <<"B">>
    ELSE IF ~tvl.neg /\ tvl.dollars >= 1000000
    THEN <<"$">> \o Scaled(tvl, 10000, 2, up) \o <<"M">>
    ELSE IF ~tvl.neg /\ tvl.dollars >= 1000
    THEN <<"$">> \o Scaled(tvl, 100, 1, up) \o <<"K">>
    ELSE <<"$">> \o Scaled(tvl, 1, 0, up)

\* format_tvl printing no decimal at the K scale
FormatTvlWholeK(tvl, up) ==
    IF NotANumber(tvl) \/ (tvl.dollars = 0 /\ tvl.cents = 0) THEN NAString
    ELSE IF tvl.dollars >= 1000000000
    THEN <<"$">> \o Scaled(tvl, 10000000, 2, up) \o <<"B">>
    ELSE IF tvl.dollars >= 1000000
    THEN <<"$">> \o Scaled(tvl, 10000, 2, up) \o <<"M">>
    ELSE IF tvl.dollars >= 1000
    THEN <<"$">> \o Scaled(tvl, 1000, 0, up) \o <<"K">>
    ELSE <<"$">> \o Scaled(tvl, 1, 0, up)

\* format_tvl(tvl), the characters of the result
format_tvl_text(tvl, up) ==
    IF NotANumber(tvl) \/ (tvl.dollars = 0 /\ tvl.cents = 0) THEN NAString
    ELSE IF tvl.dollars >= 1000000000
    THEN <<"$">> \o Scaled(tvl, 10000000, 2, up) \o <<"B">>
    ELSE IF tvl.dollars >= 1000000
    THEN <<"$">> \o Scaled(tvl, 10000, 2, up) \o <<"M">>
    ELSE IF tvl.dollars >= 1000
    THEN <<"$">> \o Scaled(tvl, 100, 1, up) \o <<"K">>
    ELSE <<"$">> \o Scaled(tvl, 1, 0, up)

\* round(apy, 2) in hundredths
Round2(apy, up) ==
    RoundHalf(apy.thousandths \div 10, 2 * (apy.thousandths % 10), 10, 2, up)

\* format_apy printing one decimal
FormatApyOneDecimal(apy, up) ==
    IF NotANumber(apy) THEN NAString
    ELSE Sign(apy)
         \o Fixed(RoundHalf(apy.thousandths \div 100, 2 * (apy.thousandths % 100),
                            100, 1, up), 1)
         \o <<"%">>

\* format_apy(apy), the characters of the result
format_apy_text(apy, up) ==
    IF NotANumber(apy) THEN NAString
    ELSE Sign(apy) \o Fixed(Round2(apy, up), 2) \o <<"%">>

\* The arguments of format_apy: None, NaN, a string, and the numbers
\* 0.000 .. MaxThousandths/1000.
ApyArgs == {NonNumber(k) : k \in {"None", "nan", "str"}}
           \cup {ApyNum(n) : n \in 0..MaxThousandths}

\* Whole-dollar amounts: all up to MaxDollars, and amounts at and around
\* the K, M and B thresholds and the rounding ties of each scale.
TvlDollars ==
    (0..MaxDollars)
    \cup {1249, 1250, 1499, 4999, 5000, 5049, 5050, 99949, 99950,
          999949, 999950, 999999, 1000000, 1004999, 1005000, 1125000,
          1250000, 999994999, 999995000, 999999999, 1000000000,
          1005000000, 1125000000, 1250000000, 2140000000}

\* The arguments of format_tvl.
TvlArgs == {NonNumber(k) : k \in {"None", "nan", "str"}}
           \cup {Num(neg, d, c) : neg \in BOOLEAN, d \in TvlDollars,
                                  c \in {0, 50}}

NoAmount == [null |-> TRUE, dollars |-> 0, cents |-> 0]

ApyInputs == [name : {"apy"}, arg : ApyArgs, up : BOOLEAN, text : {<<>>},
              parsed : {NaN}]

TvlInputs == [name : {"tvl"}, arg : TvlArgs, up : BOOLEAN, text : {<<>>},
              parsed : {NoAmount}]

\* text = format_apy(arg)
FormatApy ==
    /\ view.name = "apy"
    /\ view' = [view EXCEPT !.name = "format_apy",
                            !.text = format_apy_text(view.arg, view.up)]
    /\ UNCHANGED notPipe

\* parsed = parse_yield(text), on the text format_apy returned
ParseYield ==
    /\ view.name = "format_apy"
    /\ view' = [view EXCEPT !.name = "parse_yield",
                            !.parsed = parse_yield(view.text)]
    /\ UNCHANGED notPipe

\* text = format_tvl(arg)
FormatTvl ==
    /\ view.name = "tvl"
    /\ view' = [view EXCEPT !.name = "format_tvl",
                            !.text = format_tvl_text(view.arg, view.up)]
    /\ UNCHANGED notPipe

\* parsed = parse_tvl(text), on the text format_tvl returned for an
\* argument that is not negative
ParseTvl ==
    /\ view.name = "format_tvl"
    /\ ~view.arg.neg
    /\ view' = [view EXCEPT !.name = "parse_tvl",
                            !.parsed = parse_tvl_amount(view.text)]
    /\ UNCHANGED notPipe

InitFormat ==
    InitBase /\ view \in DescriptionInputs \cup ApyInputs \cup TvlInputs

NextFormat ==
    \/ CategorizeStablecoinByStrategy
    \/ FormatApy
    \/ ParseYield
    \/ FormatTvl
    \/ ParseTvl

SpecFormat == InitFormat /\ [][NextFormat]_vars

----------------------------------------------------------------------------
(* Claims about categorize_stablecoin_by_strategy (SpecFormat) *)

Categories ==
    {"RWA/Treasury-backed",
     "Delta Neutral/Arb",
     "Restaking",
     "Protocol Native Yield",
     "Lending/Borrowing",
     "Index/Diversified",
     "External DeFi Farming",
     "Trading Strategy",
     "LP Fees",
     "Options/Structured Product",
     "Unknown/Other"}

Classified == view.name = "categorize_stablecoin_by_strategy"

\* C21: the classifier returns, for every input (any text, '', 'n/a',
\* None), exactly one of the eleven strategy categories, never an empty
\* value.
C21_ClassifyTotal ==
    Classified => /\ view.out \in Categories
                  /\ Cardinality(Categories) = 11

\* None is classified, as Unknown/Other.
C21_Witness ==
    Classified /\ view.desc = NoneObject /\ view.out = "Unknown/Other"

\* The tests of the classifier in the order the claim gives.
OrderedRules ==
    <<[category |-> "RWA/Treasury-backed", keywords |-> Keywords.Rwa],
      [category |-> "Delta Neutral/Arb", keywords |-> Keywords.DeltaNeutral],
      [category |-> "Restaking", keywords |-> Keywords.Restaking],
      [category |-> "Protocol Native Yield", keywords |-> Keywords.ProtocolNative],
      [category |-> "Lending/Borrowing", keywords |-> Keywords.Lending],
      [category |-> "Index/Diversified", keywords |-> Keywords.Index],
      [category |-> "External DeFi Farming", keywords |-> Keywords.Farming],
      [category |-> "Trading Strategy", keywords |-> Keywords.Trading],
      [category |-> "LP Fees", keywords |-> Keywords.LpFees],
      [category |-> "Options/Structured Product", keywords |-> Keywords.Options]>>

\* The category of the first rule the lowercased text satisfies.
FirstMatch(text) ==
    LET hits == {i \in DOMAIN OrderedRules :
                    ContainsAny(text, OrderedRules[i].keywords)}
    IN  IF hits = {} THEN "Unknown/Other"
        ELSE OrderedRules[CHOOSE i \in hits : \A j \in hits : i <= j].category

\* C22: the classifier returns the category of the first test, in the
\* order RWA, Delta Neutral, Restaking, Protocol Native, Lending, Index,
\* Farming, Trading, LP Fees, Options, that the lowercased description
\* satisfies; 'T-bills' is RWA/Treasury-backed, '' is Unknown/Other and
\* 'delta neutral strategy' is Delta Neutral/Arb.
C22_FirstMatchWins ==
    Classified =>
        /\ (IsStr(view.desc) /\ lower(view.desc) \notin {<<>>, <<"n", "/", "a">>}) =>
              view.out = FirstMatch(lower(view.desc))
        /\ view.desc = <<"T", "-", "b", "i", "l", "l", "s">> =>
              view.out = "RWA/Treasury-backed"
        /\ view.desc = <<>> => view.out = "Unknown/Other"
        /\ view.desc = <<"d", "e", "l", "t", "a", " ", "n", "e", "u", "t", "r", "a", "l", " ", "s", "t", "r", "a", "t", "e", "g", "y">> =>
              view.out = "Delta Neutral/Arb"

\* A description with a Delta Neutral keyword ahead of an RWA keyword is
\* RWA/Treasury-backed.
C22_Witness ==
    /\ Classified
    /\ view.desc = <<"d", "e", "l", "t", "a", " ", "n", "e", "u", "t", "r", "a", "l", " ", "s", "t", "r", "a", "t", "e", "g", "y", " ", "T", "-", "b", "i", "l", "l", "s">>
    /\ view.out = "RWA/Treasury-backed"

----------------------------------------------------------------------------
(* Claims about the formatters and their round trips (SpecFormat) *)

IsNumber(arg) == arg.kind = "num"

\* C23: parse_yield(format_apy(x)) equals x rounded to two decimals, for
\* every number x >= 0.
C23_PercentRoundTrip ==
    (view.name = "parse_yield" /\ IsNumber(view.arg)) =>
        view.parsed = Round2(view.arg, view.up)

\* 1.005 is printed as 1.01% when its float lies above the tie, and parsed
\* back as 1.01.
C23_Witness ==
    /\ view.name = "parse_yield"
    /\ view.arg = ApyNum(1005)
    /\ view.text = <<"1", ".", "0", "1", "%">>
    /\ view.parsed = 101

Abs(n) == IF n < 0 THEN -n ELSE n

\* parse_tvl(format_tvl(x)) - x in cents, for a result that is not null
ErrorCents ==
    100 * (view.parsed.dollars - view.arg.dollars)
    + view.parsed.cents - view.arg.cents

RoundTripped == view.name = "parse_tvl" /\ IsNumber(view.arg)

\* C24: parse_tvl(format_tvl(x)) is within 1% of x for every x >= 1000 and
\* is exactly x for every x with 0 <= x < 1000.
C24_SizeRoundTrip ==
    RoundTripped =>
        IF view.arg.dollars >= 1000
        THEN ~view.parsed.null /\ Abs(ErrorCents) <= view.arg.dollars
        ELSE /\ ~view.parsed.null
             /\ view.parsed.dollars = view.arg.dollars
             /\ view.parsed.cents = view.arg.cents

\* C24 as the code has it: null for x = 0; below 1000 the nearest whole
\* number of x, so x itself when x is whole; within 5% of x from 1000 and
\* within 1% of x from 5000.
C24_SizeRoundTripByScale ==
    RoundTripped =>
        IF view.arg.dollars = 0 /\ view.arg.cents = 0 THEN view.parsed.null
        ELSE /\ ~view.parsed.null
             /\ view.arg.dollars < 1000 =>
                    /\ view.parsed.cents = 0
                    /\ Abs(ErrorCents) <= 50
                    /\ view.arg.cents = 0 => ErrorCents = 0
             /\ view.arg.dollars >= 1000 /\ view.arg.dollars < 5000 =>
                    20 * Abs(ErrorCents) <= 100 * view.arg.dollars
             /\ view.arg.dollars >= 5000 =>
                    Abs(ErrorCents) <= view.arg.dollars

\* 1049 is printed $1.0K and parsed back as 1000, 4.7% below.
C24_Witness ==
    /\ view.name = "parse_tvl"
    /\ view.arg = Num(FALSE, 1049, 0)
    /\ view.text = <<"$", "1", ".", "0", "K">>
    /\ view.parsed = [null |-> FALSE, dollars |-> 1000, cents |-> 0]

\* The unit letter of a formatted amount, "" when it ends in a digit.
Suffix(text) ==
    IF text[Len(text)] \in {"B", "M", "K"} THEN text[Len(text)] ELSE ""

\* The number of digits after the decimal point of a formatted amount.
Decimals(text) ==
    LET digits == SelectSeq(text, LAMBDA c : c \in DOMAIN Digit \cup {"."})
        points == {i \in 1..Len(digits) : digits[i] = "."}
    IN  IF points = {} THEN 0
        ELSE Len(digits) - (CHOOSE i \in points : TRUE)

\* C25: format_tvl gives N/A for None, NaN, a string and zero; otherwise
\* a dollar sign, the sign of x, and |x| in billions with two decimals and B
\* from 1e9, in millions with two decimals and M from 1e6, in thousands
\* with one decimal and K from 1e3, and with no decimal and no letter
\* below; 1,250,000,000 gives $1.25B, 999 gives $999, format_apy(None)
\* gives N/A.
C25_FormatSize ==
    /\ view.name \in {"format_tvl", "parse_tvl"} =>
          IF ~IsNumber(view.arg)
             \/ (view.arg.dollars = 0 /\ view.arg.cents = 0)
          THEN view.text = NAString
          ELSE /\ Head(view.text) = "$"
               /\ view.arg.neg <=> view.text[2] = "-"
               /\ Suffix(view.text) =
                      (IF view.arg.dollars >= 1000000000 THEN "B"
                       ELSE IF view.arg.dollars >= 1000000 THEN "M"
                       ELSE IF view.arg.dollars >= 1000 THEN "K" ELSE "")
               /\ Decimals(view.text) =
                      (IF view.arg.dollars >= 1000000 THEN 2
                       ELSE IF view.arg.dollars >= 1000 THEN 1 ELSE 0)
               /\ view.arg = Num(FALSE, 1250000000, 0) =>
                      view.text = <<"$", "1", ".", "2", "5", "B">>
               /\ view.arg = Num(FALSE, 999, 0) =>
                      view.text = <<"$", "9", "9", "9">>
    /\ (view.name = "format_apy" /\ view.arg = NonNumber("None")) =>
          view.text = NAString

\* -1,250,000,000 is printed $-1.25B.
C25_Witness ==
    /\ view.name = "format_tvl"
    /\ view.arg = Num(TRUE, 1250000000, 0)
    /\ view.text = <<"$", "-", "1", ".", "2", "5", "B">>

----------------------------------------------------------------------------
(* Claims about the inputs of the pool assemblers and the metadata join    *)
(* (SpecPipe)                                                               *)

\* C26: a call of get_yield_data or get_analytics_data leaves the metadata
\* table it was given, columns and rows, and the fetched pool table as they
\* were before the call.
C26_InputsUnchanged ==
    [][(GetYieldData \/ GetAnalyticsData) =>
          (view'.meta = view.meta /\ view'.base = view.base)]_vars

\* The name of the first metadata row with the join_symbol, NaN when the
\* metadata has none.
FirstName(meta, join_symbol) ==
    LET hits == {i \in 1..Len(meta.rows) :
                    meta.rows[i].join_symbol = join_symbol}
    IN  IF hits = {} THEN NaNName
        ELSE meta.rows[CHOOSE i \in hits : \A j \in hits : i <= j].name

\* C27: with metadata to merge, every selected pool row is joined once, to
\* the metadata fields of the first metadata row that has its join_symbol,
\* and has null metadata fields when no metadata row has it.
C27_FirstMetadataRowWins ==
    (view.name = "get_yield_data" /\ IsTable(view.out)
     /\ Mergeable(view.meta)) =>
        /\ Len(view.locals.merged_df) = Len(view.locals.filtered_tvl_df)
        /\ \A i \in 1..Len(view.locals.merged_df) :
              /\ view.locals.merged_df[i].row = view.locals.filtered_tvl_df[i]
              /\ view.locals.merged_df[i].name =
                    FirstName(view.meta,
                              view.locals.merged_df[i].row.join_symbol)

\* The metadata holds usdc twice, as Circle and then as Other; one pool row
\* is joined to Circle and one has no metadata.
C27_Witness ==
    /\ view.name = "get_yield_data"
    /\ IsTable(view.out)
    /\ view.meta.rows = <<MetaRow("usdc", "Circle"), MetaRow("usdc", "Other")>>
    /\ \E i, j \in 1..Len(view.locals.merged_df) :
          /\ view.locals.merged_df[i].name = "Circle"
          /\ view.locals.merged_df[j].name = NaNName

----------------------------------------------------------------------------
(* Claims about the rate-limit counter (SpecFetch, SpecRL) *)

\* The count and window_start of a domain in a store, -1 when the store has
\* no entry for it.
CountOf(storage, d) == IF d \in DOMAIN storage THEN storage[d].count ELSE -1
WindowStartOf(storage, d) ==
    IF d \in DOMAIN storage THEN storage[d].window_start ELSE -1

\* A step that begins a call of fetch_data_with_retries.
CallBegins == pc # "loop" /\ pc' # "idle"

\* C28: a call of fetch_data_with_retries that passes the rate-limit check
\* adds exactly one to the count of its domain, before any GET; the
\* attempts of the call, retries included, leave the store as it is; a call
\* the limiter rejects leaves the count and the window_start of its domain
\* as they were.
C28_CountedOncePerCall ==
    [][/\ (CallBegins /\ outcome' = "none") =>
             /\ gets' = 0
             /\ RATE_LIMIT_STORE'[url'.netloc].count =
                   (IF \/ url'.netloc \notin DOMAIN RATE_LIMIT_STORE
                       \/ WindowStartOf(RATE_LIMIT_STORE', url'.netloc)
                             # WindowStartOf(RATE_LIMIT_STORE, url'.netloc)
                    THEN 0 ELSE RATE_LIMIT_STORE[url'.netloc].count) + 1
       /\ (CallBegins /\ outcome' = "RateLimitExceededError") =>
             /\ CountOf(RATE_LIMIT_STORE', url'.netloc)
                   = CountOf(RATE_LIMIT_STORE, url'.netloc)
             /\ WindowStartOf(RATE_LIMIT_STORE', url'.netloc)
                   = WindowStartOf(RATE_LIMIT_STORE, url'.netloc)
       /\ pc = "loop" => RATE_LIMIT_STORE' = RATE_LIMIT_STORE]_vars

\* A call that failed once and issued a second GET, with its domain counted
\* once.
C28_Witness ==
    /\ failed >= 1
    /\ gets >= 2
    /\ url.netloc \in DOMAIN RATE_LIMIT_STORE
    /\ RATE_LIMIT_STORE[url.netloc].count = 1

\* C29: every entry of the store has 0 <= count <= 60 and window_start <=
\* last_request, and the count of a domain goes down, or its window_start
\* changes, only in a call that arrives more than 60 seconds after the
\* window_start.
C29_StoreInvariant ==
    /\ [](\A d \in DOMAIN RATE_LIMIT_STORE :
             /\ 0 <= RATE_LIMIT_STORE[d].count
             /\ RATE_LIMIT_STORE[d].count <= 60
             /\ RATE_LIMIT_STORE[d].window_start
                   <= RATE_LIMIT_STORE[d].last_request)
    /\ [][\A d \in DOMAIN RATE_LIMIT_STORE :
             (\/ RATE_LIMIT_STORE'[d].count < RATE_LIMIT_STORE[d].count
              \/ RATE_LIMIT_STORE'[d].window_start
                    # RATE_LIMIT_STORE[d].window_start) =>
                 /\ now' - RATE_LIMIT_STORE[d].window_start > 60
                 /\ RATE_LIMIT_STORE'[d].window_start = now'
                 /\ RATE_LIMIT_STORE'[d].count = 1]_vars

\* A full window: sixty calls admitted, the last of them sixty seconds
\* after the window opened.
C29_Witness ==
    \E d \in DOMAIN RATE_LIMIT_STORE :
        /\ RATE_LIMIT_STORE[d].count = 60
        /\ RATE_LIMIT_STORE[d].window_start = 0
        /\ RATE_LIMIT_STORE[d].last_request = 60

----------------------------------------------------------------------------
(* rate_limit_request called by several threads on the module-level        *)
(* RATE_LIMIT_STORE (utils/security.py:154-181, utils/api.py:43, 83).       *)
(* The function takes no lock; a thread can be suspended between any two   *)
(* of its statements, and between the read and the write of `count += 1`.  *)

MaxOver == 1        \* calls begin while at most 60 + MaxOver - 1 were admitted
RaceHeadroom == 3   \* the threads start with 60 - RaceHeadroom .. 60 calls
                    \* already admitted in the window

RaceDomain == YieldsUrl.netloc

\* security.py:154-169: the entry of the domain is created if it is absent,
\* and its window is reset if it has passed.
RaceEnter(t) ==
    /\ threads[t].pc = "idle"
    /\ rl.admitted[RaceDomain] < RATE_LIMIT_REQUESTS_PER_MINUTE + MaxOver
    /\ LET s1 == IF RaceDomain \in DOMAIN RATE_LIMIT_STORE
                 THEN RATE_LIMIT_STORE
                 ELSE RATE_LIMIT_STORE
                      @@ (RaceDomain :> [last_request |-> now, count |-> 0,
                                         window_start |-> now])
           reset == WindowPassed(now, s1[RaceDomain].window_start)
       IN  /\ RATE_LIMIT_STORE' =
                 IF reset
                 THEN [s1 EXCEPT ![RaceDomain].count = 0,
                                 ![RaceDomain].window_start = now]
                 ELSE s1
           /\ rl' = IF reset
                    THEN [rl EXCEPT !.admitted[RaceDomain] = 0]
                    ELSE rl
    /\ threads' = [threads EXCEPT ![t].pc = "check"]
    /\ UNCHANGED <<now, notRace>>

\* security.py:172-175: the ceiling test; RateLimitExceededError ends the
\* call.
RaceCheck(t) ==
    /\ threads[t].pc = "check"
    /\ threads' = [threads EXCEPT
                     ![t].pc = IF LimitReached(RATE_LIMIT_STORE[RaceDomain].count)
                               THEN "idle" ELSE "load"]
    /\ UNCHANGED <<storeVars, rl, notRace>>

\* security.py:178, the read of domain_limits['count'] += 1
RaceLoad(t) ==
    /\ threads[t].pc = "load"
    /\ threads' = [threads EXCEPT
                     ![t].pc = "store",
                     ![t].count = RATE_LIMIT_STORE[RaceDomain].count]
    /\ UNCHANGED <<storeVars, rl, notRace>>

\* security.py:178-181, the write of domain_limits['count'] += 1, then
\* last_request and return True: the call is admitted.
RaceStore(t) ==
    /\ threads[t].pc = "store"
    /\ RATE_LIMIT_STORE' =
          [RATE_LIMIT_STORE EXCEPT ![RaceDomain].count = threads[t].count + 1,
                                   ![RaceDomain].last_request = now]
    /\ rl' = [rl EXCEPT !.admitted[RaceDomain] = @ + 1]
    /\ threads' = [threads EXCEPT ![t].pc = "idle"]
    /\ UNCHANGED <<now, notRace>>

NextRace ==
    \E t \in Threads :
        \/ RaceEnter(t)
        \/ RaceCheck(t)
        \/ RaceLoad(t)
        \/ RaceStore(t)

\* The threads start on the store as it is after k calls for the domain
\* were admitted one after another at time 0.
InitRace ==
    /\ \E k \in (RATE_LIMIT_REQUESTS_PER_MINUTE - RaceHeadroom)
                ..RATE_LIMIT_REQUESTS_PER_MINUTE :
          /\ RATE_LIMIT_STORE =
                (RaceDomain :> [last_request |-> 0, count |-> k,
                                window_start |-> 0])
          /\ rl = [RlIdle EXCEPT !.admitted[RaceDomain] = k]
    /\ now = 0
    /\ pc = "idle"
    /\ url = EmptyUrl
    /\ retries = API_RETRIES
    /\ expected_keys = {}
    /\ attempt = 0
    /\ last_error = "None"
    /\ result = NoResult
    /\ gets = 0
    /\ delays = 0
    /\ outcome = "none"
    /\ failed = 0
    /\ response = JsonNull
    /\ MEMORY_CACHE = EmptyStore
    /\ call = CallIdle
    /\ view = ViewIdle
    /\ threads = ThreadsIdle

SpecRace == InitRace /\ [][NextRace]_vars

\* C30: with several threads in rate_limit_request for one domain, the
\* number of calls admitted within one window never exceeds 60.
C30_CeilingUnderConcurrency ==
    rl.admitted[RaceDomain] <= RATE_LIMIT_REQUESTS_PER_MINUTE

====
